---------------------------- MODULE Spec2Model ----------------------------
(***************************************************************************)
(* A model of the usage and content caching core of src/index.js:          *)
(*   - the credit ledger (table device_usage, the spend / consume / grant  *)
(*     stored procedures and the request handlers that call them),         *)
(*   - the RevenueCat webhook with its event dedupe table,                 *)
(*   - the daily thought bank builder with its in-process build lock.      *)
(* Every await of the source is a suspension point: a handler is cut into   *)
(* one action per await, and each action runs the store operation that the  *)
(* await waited for together with the synchronous code up to the next       *)
(* await.                                                                   *)
(***************************************************************************)
EXTENDS Integers, Sequences, FiniteSets, TLC

VARIABLES
    device_usage,       \* table device_usage: device id -> row or NoRow
    req,                \* the in-flight HTTP requests of the ledger handlers
    start,              \* the ledger as it was when the requests were launched
    grantLog,           \* every call of sbGrantCredits: who, for whom, how much
    revenuecat_events,  \* table revenuecat_events: the recorded event ids
    hook,               \* the in-flight deliveries to /revenuecat/webhook
    thought_banks,      \* table thought_banks: <<label, day>> -> number of lines, 0 = no row
    bankBuildLocks,     \* the Set bankBuildLocks
    today,              \* the current UTC day, as utcDayKey() reads it
    build,              \* the invocations of buildBankInBackground, by caller
    caller,             \* the ensureDailyBank calls and the direct build calls
    prewarm,            \* the position of the prewarmHotLabels pass
    upserts,            \* every row write of sbUpsertBank: builder, label, day
    filter,             \* one application of filterWithAutoRelax: input and result
    lineBuild,          \* one run of buildBankInBackground with its lines spelled out
    norm,               \* one line put through ensureSingleEndingEmoji, once and twice
    subjectCache,       \* the Map subjectCache: its entries in insertion order
    cacheEnv            \* Date.now(), the last cache call and what it returned

ledgerVars == <<device_usage, req, start, grantLog>>
hookVars   == <<revenuecat_events, hook>>
bankVars   == <<thought_banks, bankBuildLocks, today, build, caller, prewarm, upserts>>
cacheVars  == <<subjectCache, cacheEnv>>
pureVars   == <<filter, lineBuild, norm, subjectCache, cacheEnv>>
vars       == <<device_usage, req, start, grantLog, revenuecat_events, hook,
                thought_banks, bankBuildLocks, today, build, caller, prewarm, upserts,
                filter, lineBuild, norm, subjectCache, cacheEnv>>

(***************************************************************************)
(* Bounds of the model                                                     *)
(***************************************************************************)
MaxRequests == 2
MaxDeliveries == 2
MaxCallers == 2
MaxDay == 2
MaxCopies == 8
MaxCacheOps == 4
MaxPoolCalls == 3

(***************************************************************************)
(* CONFIG and the product table                                            *)
(***************************************************************************)
DEFAULT_PRO_BALANCE == 5
FREE_CHAT_TOKENS == 10
BANK_DAILY_SIZE == 100
BANK_LEARN_BATCH_SIZE == 25
BANK_LEARN_MIN_ACCEPT == 30
BatchBreakThreshold == 8
FREE_THOUGHT_MIN_WORDS == 5
FREE_THOUGHT_MAX_WORDS == 15
RELAX_1_DELTA_MIN_WORDS == 2
RELAX_1_DELTA_MAX_WORDS == 4
RELAX_2_DELTA_MIN_WORDS == 3
RELAX_2_DELTA_MAX_WORDS == 8
FilterThreshold == 8
SUBJECT_CACHE_TTL_MS == 600000
SUBJECT_CACHE_MAX == 2000

Max(a, b) == IF a >= b THEN a ELSE b

None == [none |-> TRUE]
NoRow == [absent |-> TRUE]

(***************************************************************************)
(* requireDeviceId: a string, trimmed, of at least 3 characters.           *)
(* A raw id is a sequence of characters, or NotAString.                    *)
(***************************************************************************)
NotAString == <<"#notastring">>
IsSpace(c) == c = " "

RECURSIVE TrimLeft(_)
TrimLeft(s) == IF s # <<>> /\ IsSpace(Head(s)) THEN TrimLeft(Tail(s)) ELSE s

RECURSIVE TrimRight(_)
TrimRight(s) ==
    IF s # <<>> /\ IsSpace(s[Len(s)]) THEN TrimRight(SubSeq(s, 1, Len(s) - 1)) ELSE s

Trim(s) == TrimRight(TrimLeft(s))

requireDeviceId(id) ==
    IF id = NotAString THEN None
    ELSE IF Len(Trim(id)) < 3 THEN None
    ELSE [id |-> Trim(id)]

Dev1 == <<"d", "v", "1">>
ShortDev == <<"d">>
Devices == {Dev1}
\* the keys of device_usage: requireDeviceId admits Devices only
DeviceKeys == Devices \cup {ShortDev}
\* the deviceId values a request body may carry
RawDeviceIds == {Dev1, <<" ">> \o Dev1, <<"d", " ">>, <<" ">>, NotAString}

(***************************************************************************)
(* The ledger: table device_usage and its stored procedures                *)
(***************************************************************************)
Row(pt, pu, ct, cu) ==
    [pro_tokens |-> pt, pro_used |-> pu, free_chat_tokens |-> ct, free_chat_used |-> cu]

\* the row sbEnsureDeviceRow inserts
SeedRow == Row(DEFAULT_PRO_BALANCE, 0, FREE_CHAT_TOKENS, 0)

\* the row a stored procedure creates on first touch of an unknown device
RpcSeedRow(pro_seed, chat_seed) == Row(pro_seed, 0, chat_seed, 0)

\* rpc spend_pro_credits(p_device_id, p_cost, p_default_seed): one atomic statement
spend_pro_credits(row, p_cost, p_default_seed) ==
    LET base == IF row = NoRow THEN RpcSeedRow(p_default_seed, FREE_CHAT_TOKENS) ELSE row
        ok   == base.pro_used + p_cost <= base.pro_tokens
        new  == IF ok THEN [base EXCEPT !.pro_used = @ + p_cost] ELSE base
    IN  [row |-> new,
         out |-> [ok |-> ok, pro_tokens |-> new.pro_tokens, pro_used |-> new.pro_used,
                  remaining_pro |-> Max(0, new.pro_tokens - new.pro_used)]]

\* rpc grant_pro_credits(p_device_id, p_amount, p_default_seed): one atomic statement
grant_pro_credits(row, p_amount, p_default_seed) ==
    LET base == IF row = NoRow THEN RpcSeedRow(p_default_seed, FREE_CHAT_TOKENS) ELSE row
        new  == [base EXCEPT !.pro_tokens = @ + p_amount]
    IN  [row |-> new,
         out |-> [pro_tokens |-> new.pro_tokens, pro_used |-> new.pro_used,
                  remaining_pro |-> Max(0, new.pro_tokens - new.pro_used)]]

\* rpc consume_free_chat(p_device_id, p_default_seed): one atomic statement, cost 1
consume_free_chat(row, p_default_seed) ==
    LET base == IF row = NoRow THEN RpcSeedRow(DEFAULT_PRO_BALANCE, p_default_seed) ELSE row
        ok   == base.free_chat_used + 1 <= base.free_chat_tokens
        new  == IF ok THEN [base EXCEPT !.free_chat_used = @ + 1] ELSE base
    IN  [row |-> new,
         out |-> [ok |-> ok, free_chat_tokens |-> new.free_chat_tokens,
                  free_chat_used |-> new.free_chat_used,
                  remaining_free_chat |-> Max(0, new.free_chat_tokens - new.free_chat_used)]]

\* a slip in sbSpendCredits: ok taken from the row's presence, not from row.ok
SpendResult_OkFromRow(out) ==
    [ok |-> TRUE, proTokens |-> out.pro_tokens, proUsed |-> out.pro_used,
     remainingPro |-> out.remaining_pro]

\* what sbSpendCredits returns for the procedure's row
SpendResult(out) ==
    [ok |-> out.ok, proTokens |-> out.pro_tokens, proUsed |-> out.pro_used,
     remainingPro |-> out.remaining_pro]

\* what sbGrantCredits returns for the procedure's row
GrantResult(out) ==
    [proTokens |-> out.pro_tokens, proUsed |-> out.pro_used,
     remainingPro |-> out.remaining_pro]

\* what sbConsumeFreeChat returns for the procedure's row
ConsumeResult(out) ==
    [ok |-> out.ok, freeChatTokens |-> out.free_chat_tokens,
     freeChatUsed |-> out.free_chat_used, remainingFreeChat |-> out.remaining_free_chat]

\* what sbGetStatus returns for the selected row (data may be null)
ProStatus(data) ==
    LET tokens == IF data = NoRow THEN DEFAULT_PRO_BALANCE ELSE data.pro_tokens
        used   == IF data = NoRow THEN 0 ELSE data.pro_used
    IN  [proTokens |-> tokens, proUsed |-> used, remainingPro |-> Max(0, tokens - used)]

\* what sbGetChatStatus returns for the selected row (data may be null)
ChatStatus(data) ==
    LET tokens == IF data = NoRow THEN FREE_CHAT_TOKENS ELSE data.free_chat_tokens
        used   == IF data = NoRow THEN 0 ELSE data.free_chat_used
    IN  [freeChatTokens |-> tokens, freeChatUsed |-> used,
         remainingFreeChat |-> Max(0, tokens - used)]

\* a slip in the dev reset: the two branches of free_chat_used swapped
DevSetUsed_Swapped(rem) == IF rem = FREE_CHAT_TOKENS THEN FREE_CHAT_TOKENS ELSE 0

\* POST /dev/set-free-chat: the free_chat_used it writes for the requested remaining
DevSetUsed(rem) == IF rem = FREE_CHAT_TOKENS THEN 0 ELSE FREE_CHAT_TOKENS

PRODUCT_CREDITS(productId) ==
    CASE productId = "10_smart_thoughts" -> 10
      [] productId = "25_smart_thoughts" -> 25
      [] productId = "50_smart_thoughts" -> 50
      [] productId = "100_smart_thoughts" -> 100
      [] OTHER -> 0

\* the product ids a request or a webhook payload may carry
ProductIds == {"10_smart_thoughts", "25_smart_thoughts", "weekly_sub"}

(***************************************************************************)
(* The ledger's request handlers                                           *)
(***************************************************************************)
Requests == 1..MaxRequests

IdleReq ==
    [kind |-> "idle", pc |-> "idle", deviceId |-> <<>>, body |-> None,
     next |-> "", result |-> None, response |-> None]

Response(status, error, payload) == [status |-> status, error |-> error, payload |-> payload]
ServerError == Response(500, "SERVER_ERROR", None)

Finish(r, resp) == req' = [req EXCEPT ![r].pc = "done", ![r].response = resp]
Goto(r, pc) == req' = [req EXCEPT ![r].pc = pc]

\* the ledgers the requests may start from: every device is unknown, nearly
\* exhausted or exhausted in both pools
InitRows ==
    {NoRow,
     Row(DEFAULT_PRO_BALANCE, DEFAULT_PRO_BALANCE - 1, FREE_CHAT_TOKENS, FREE_CHAT_TOKENS - 1),
     Row(DEFAULT_PRO_BALANCE, DEFAULT_PRO_BALANCE, FREE_CHAT_TOKENS, FREE_CHAT_TOKENS)}

\* ---- sbEnsureDeviceRow: select, then insert when the select found nothing
EnsureSelectReturns(r) ==
    /\ req[r].pc = "ensure_select"
    /\ \E error \in BOOLEAN :
        IF error THEN Finish(r, ServerError)
        ELSE IF device_usage[req[r].deviceId] # NoRow THEN Goto(r, req[r].next)
        ELSE Goto(r, "ensure_insert")
    /\ UNCHANGED <<device_usage, start, grantLog>>
    /\ UNCHANGED <<hookVars, bankVars, pureVars>>

EnsureInsertReturns(r) ==
    /\ req[r].pc = "ensure_insert"
    /\ \E error \in BOOLEAN :
        \* the insert fails on a store error, or when the device's row exists by now
        IF error \/ device_usage[req[r].deviceId] # NoRow
        THEN Finish(r, ServerError) /\ UNCHANGED device_usage
        ELSE /\ device_usage' = [device_usage EXCEPT ![req[r].deviceId] = SeedRow]
             /\ Goto(r, req[r].next)
    /\ UNCHANGED <<start, grantLog>>
    /\ UNCHANGED <<hookVars, bankVars, pureVars>>

\* ---- POST /thought
\* what the handler answers to a refused spend
ThoughtLimitResponse(spend) ==
    Response(200, "PRO_LIMIT_REACHED", [remainingPro |-> spend.remainingPro])

ThoughtStart(r) ==
    /\ req[r].pc = "idle"
    /\ \E tier \in {"pro", "free"}, imageOk \in BOOLEAN, hintOk \in BOOLEAN :
        LET q == [req[r] EXCEPT !.kind = "thought", !.body = [tier |-> tier]]
        IN  IF ~imageOk
            THEN req' = [req EXCEPT ![r] = [q EXCEPT !.pc = "done",
                                  !.response = Response(400, "BAD_REQUEST", None)]]
            ELSE IF tier = "pro"
            THEN req' = [req EXCEPT ![r] = [q EXCEPT !.pc = "enrich"]]
            ELSE IF hintOk
            THEN req' = [req EXCEPT ![r] = [q EXCEPT !.pc = "bank"]]
            ELSE req' = [req EXCEPT ![r] = [q EXCEPT !.pc = "classify"]]
    /\ UNCHANGED <<device_usage, start, grantLog>>
    /\ UNCHANGED <<hookVars, bankVars, pureVars>>

\* enrichImage returns (or throws); a usable label leads to the device id check
\* and the call of sbSpendCredits
ThoughtEnrichReturns(r) ==
    /\ req[r].pc = "enrich"
    /\ \E outcome \in {"label", "other", "throws"}, rawId \in RawDeviceIds :
        IF outcome = "throws" THEN Finish(r, ServerError)
        ELSE IF outcome = "other"
        THEN Finish(r, Response(200, "", [label |-> "unknown", tier |-> "pro"]))
        ELSE LET id == requireDeviceId(rawId)
             IN  IF id = None
                 THEN Finish(r, Response(400, "MISSING_DEVICE_ID", None))
                 ELSE req' = [req EXCEPT ![r].pc = "spend", ![r].deviceId = id.id]
    /\ UNCHANGED <<device_usage, start, grantLog>>
    /\ UNCHANGED <<hookVars, bankVars, pureVars>>

ThoughtClassifyReturns(r) ==
    /\ req[r].pc = "classify"
    /\ \E outcome \in {"label", "other", "throws"} :
        IF outcome = "throws" THEN Finish(r, ServerError)
        ELSE IF outcome = "other"
        THEN Finish(r, Response(200, "", [label |-> "unknown", tier |-> "free"]))
        ELSE Goto(r, "bank")
    /\ UNCHANGED <<device_usage, start, grantLog>>
    /\ UNCHANGED <<hookVars, bankVars, pureVars>>

\* the free path: ensureDailyBank returns a bank or none; no ledger call is made
ThoughtBankReturns(r) ==
    /\ req[r].pc = "bank"
    /\ \E source \in {"supabase-bank", "fallback-no-bank"} :
        Finish(r, Response(200, "", [tier |-> "free", source |-> source]))
    /\ UNCHANGED <<device_usage, start, grantLog>>
    /\ UNCHANGED <<hookVars, bankVars, pureVars>>

\* a handler that goes on to generateProThought whatever the spend returned
ThoughtSpendReturns_IgnoresRefusal(r) ==
    /\ req[r].pc = "spend"
    /\ \E error \in BOOLEAN :
        IF error THEN Finish(r, ServerError) /\ UNCHANGED device_usage
        ELSE LET d     == req[r].deviceId
                 rpc   == spend_pro_credits(device_usage[d], 1, DEFAULT_PRO_BALANCE)
                 spend == SpendResult(rpc.out)
             IN  /\ device_usage' = [device_usage EXCEPT ![d] = rpc.row]
                 /\ req' = [req EXCEPT ![r].pc = "generate", ![r].result = spend]
    /\ UNCHANGED <<start, grantLog>>
    /\ UNCHANGED <<hookVars, bankVars, pureVars>>

\* sbSpendCredits(deviceId, 1) returns (or throws)
ThoughtSpendReturns(r) ==
    /\ req[r].pc = "spend"
    /\ \E error \in BOOLEAN :
        IF error THEN Finish(r, ServerError) /\ UNCHANGED device_usage
        ELSE LET d     == req[r].deviceId
                 rpc   == spend_pro_credits(device_usage[d], 1, DEFAULT_PRO_BALANCE)
                 spend == SpendResult(rpc.out)
             IN  /\ device_usage' = [device_usage EXCEPT ![d] = rpc.row]
                 /\ IF ~spend.ok
                    THEN req' = [req EXCEPT ![r].pc = "done", ![r].result = spend,
                                            ![r].response = ThoughtLimitResponse(spend)]
                    ELSE req' = [req EXCEPT ![r].pc = "generate", ![r].result = spend]
    /\ UNCHANGED <<start, grantLog>>
    /\ UNCHANGED <<hookVars, bankVars, pureVars>>

\* generateProThought returns (or throws): the handler answers, and calls nothing else
ThoughtGenerateReturns(r) ==
    /\ req[r].pc = "generate"
    /\ \E throws \in BOOLEAN :
        IF throws THEN Finish(r, ServerError)
        ELSE Finish(r, Response(200, "", [tier |-> "pro",
                                          remainingPro |-> req[r].result.remainingPro]))
    /\ UNCHANGED <<device_usage, start, grantLog>>
    /\ UNCHANGED <<hookVars, bankVars, pureVars>>

\* ---- POST /ask
\* the handler from the body checks on: question, image, label, generation
AskAfterGate(q, questionOk, imageOk, hintOk) ==
    IF ~questionOk
    THEN [q EXCEPT !.pc = "done", !.response = Response(400, "MISSING_QUESTION", None)]
    ELSE IF ~imageOk
    THEN [q EXCEPT !.pc = "done", !.response = Response(400, "BAD_REQUEST", None)]
    ELSE IF hintOk THEN [q EXCEPT !.pc = "ask_generate"]
    ELSE [q EXCEPT !.pc = "ask_classify"]

\* a slip in the refusal: the granted total reported as the remaining balance
AskLimitResponse_WrongField(gate) ==
    Response(402, "FREE_CHAT_LIMIT_REACHED",
             [freeChatTokens |-> gate.freeChatTokens, freeChatUsed |-> gate.freeChatUsed,
              remainingFreeChat |-> gate.freeChatTokens])

\* what the handler answers to a refused free-chat consume
AskLimitResponse(gate) ==
    Response(402, "FREE_CHAT_LIMIT_REACHED",
             [freeChatTokens |-> gate.freeChatTokens, freeChatUsed |-> gate.freeChatUsed,
              remainingFreeChat |-> gate.remainingFreeChat])

AskStart(r) ==
    /\ req[r].pc = "idle"
    /\ \E rawId \in RawDeviceIds :
        LET id == requireDeviceId(rawId)
        IN  IF id = None
            THEN req' = [req EXCEPT ![r].kind = "ask", ![r].pc = "done",
                              ![r].response = Response(400, "MISSING_DEVICE_ID", None)]
            ELSE req' = [req EXCEPT ![r].kind = "ask", ![r].pc = "ask_rc",
                              ![r].deviceId = id.id]
    /\ UNCHANGED <<device_usage, start, grantLog>>
    /\ UNCHANGED <<hookVars, bankVars, pureVars>>

\* validateProWithRevenueCat returns; a non-pro caller goes through sbConsumeFreeChat
AskRcReturns(r) ==
    /\ req[r].pc = "ask_rc"
    /\ \E isPro \in BOOLEAN, questionOk \in BOOLEAN, imageOk \in BOOLEAN, hintOk \in BOOLEAN :
        IF ~isPro
        THEN req' = [req EXCEPT ![r].pc = "ensure_select", ![r].next = "consume_rpc",
                          ![r].body = [isPro |-> FALSE]]
        ELSE req' = [req EXCEPT ![r] =
                        AskAfterGate([req[r] EXCEPT !.body = [isPro |-> TRUE]],
                                     questionOk, imageOk, hintOk)]
    /\ UNCHANGED <<device_usage, start, grantLog>>
    /\ UNCHANGED <<hookVars, bankVars, pureVars>>

\* rpc consume_free_chat returns (or fails)
AskConsumeReturns(r) ==
    /\ req[r].pc = "consume_rpc"
    /\ \E error \in BOOLEAN, questionOk \in BOOLEAN, imageOk \in BOOLEAN, hintOk \in BOOLEAN :
        IF error THEN Finish(r, ServerError) /\ UNCHANGED device_usage
        ELSE LET d    == req[r].deviceId
                 rpc  == consume_free_chat(device_usage[d], FREE_CHAT_TOKENS)
                 gate == ConsumeResult(rpc.out)
             IN  /\ device_usage' = [device_usage EXCEPT ![d] = rpc.row]
                 /\ IF ~gate.ok
                    THEN req' = [req EXCEPT ![r].pc = "done", ![r].result = gate,
                                            ![r].response = AskLimitResponse(gate)]
                    ELSE req' = [req EXCEPT ![r] =
                                    AskAfterGate([req[r] EXCEPT !.result = gate],
                                                 questionOk, imageOk, hintOk)]
    /\ UNCHANGED <<start, grantLog>>
    /\ UNCHANGED <<hookVars, bankVars, pureVars>>

AskClassifyReturns(r) ==
    /\ req[r].pc = "ask_classify"
    /\ \E outcome \in {"label", "other", "throws"} :
        IF outcome = "throws" THEN Finish(r, ServerError)
        ELSE IF outcome = "other" THEN Finish(r, Response(200, "", [label |-> "unknown"]))
        ELSE Goto(r, "ask_generate")
    /\ UNCHANGED <<device_usage, start, grantLog>>
    /\ UNCHANGED <<hookVars, bankVars, pureVars>>

\* generateAskAnswer returns (or throws): the handler answers, and calls nothing else
AskGenerateReturns(r) ==
    /\ req[r].pc = "ask_generate"
    /\ \E throws \in BOOLEAN :
        IF throws THEN Finish(r, ServerError)
        ELSE Finish(r, Response(200, "", [isPro |-> req[r].body.isPro]))
    /\ UNCHANGED <<device_usage, start, grantLog>>
    /\ UNCHANGED <<hookVars, bankVars, pureVars>>

\* ---- POST /status
StatusStart(r) ==
    /\ req[r].pc = "idle"
    /\ \E rawId \in RawDeviceIds :
        LET id == requireDeviceId(rawId)
        IN  IF id = None
            THEN req' = [req EXCEPT ![r].kind = "status", ![r].pc = "done",
                              ![r].response = Response(400, "MISSING_DEVICE_ID", None)]
            ELSE req' = [req EXCEPT ![r].kind = "status", ![r].pc = "ensure_select",
                              ![r].next = "status_select", ![r].deviceId = id.id]
    /\ UNCHANGED <<device_usage, start, grantLog>>
    /\ UNCHANGED <<hookVars, bankVars, pureVars>>

\* sbGetStatus: the select after sbEnsureDeviceRow; then sbGetChatStatus starts
StatusSelectReturns(r) ==
    /\ req[r].pc = "status_select"
    /\ \E error \in BOOLEAN :
        IF error THEN Finish(r, ServerError)
        ELSE req' = [req EXCEPT ![r].pc = "ensure_select", ![r].next = "chat_select",
                          ![r].result = ProStatus(device_usage[req[r].deviceId])]
    /\ UNCHANGED <<device_usage, start, grantLog>>
    /\ UNCHANGED <<hookVars, bankVars, pureVars>>

\* sbGetChatStatus: the select after sbEnsureDeviceRow; the handler then asks
\* RevenueCat (which never throws) and answers
StatusChatSelectReturns(r) ==
    /\ req[r].pc = "chat_select"
    /\ \E error \in BOOLEAN :
        IF error THEN Finish(r, ServerError)
        ELSE LET s == req[r].result
                 c == ChatStatus(device_usage[req[r].deviceId])
             IN  Finish(r, Response(200, "",
                    [remainingPro |-> s.remainingPro, proTokens |-> s.proTokens,
                     proUsed |-> s.proUsed, remainingFreeChat |-> c.remainingFreeChat,
                     freeChatTokens |-> c.freeChatTokens, freeChatUsed |-> c.freeChatUsed]))
    /\ UNCHANGED <<device_usage, start, grantLog>>
    /\ UNCHANGED <<hookVars, bankVars, pureVars>>

\* ---- POST /dev/set-free-chat
\* the handler's own device id check: a string, trimmed, not empty
DevSetDeviceId(id) ==
    IF id = NotAString THEN None
    ELSE IF Trim(id) = <<>> THEN None
    ELSE [id |-> Trim(id)]

DevSetStart(r) ==
    /\ req[r].pc = "idle"
    /\ \E keyOk \in BOOLEAN, rawId \in RawDeviceIds,
          rem \in {0, FREE_CHAT_TOKENS, FREE_CHAT_TOKENS - 1} :
        LET id == DevSetDeviceId(rawId)
            d  == IF id = None THEN ShortDev ELSE id.id
        IN
        IF ~keyOk
        THEN req' = [req EXCEPT ![r].kind = "devset", ![r].pc = "done",
                          ![r].response = Response(403, "FORBIDDEN", None)]
        ELSE IF id = None
        THEN req' = [req EXCEPT ![r].kind = "devset", ![r].pc = "done",
                          ![r].response = Response(400, "Missing deviceId", None)]
        ELSE IF ~(rem = 0 \/ rem = FREE_CHAT_TOKENS)
        THEN req' = [req EXCEPT ![r].kind = "devset", ![r].pc = "done",
                          ![r].response = Response(400, "Remaining must be 0 or max", None)]
        ELSE req' = [req EXCEPT ![r].kind = "devset", ![r].pc = "ensure_select",
                          ![r].next = "devset_update", ![r].deviceId = d,
                          ![r].body = [rem |-> rem]]
    /\ UNCHANGED <<device_usage, start, grantLog>>
    /\ UNCHANGED <<hookVars, bankVars, pureVars>>

\* the update of free_chat_tokens and free_chat_used returns (or fails)
DevSetUpdateReturns(r) ==
    /\ req[r].pc = "devset_update"
    /\ \E error \in BOOLEAN :
        IF error THEN Finish(r, ServerError) /\ UNCHANGED device_usage
        ELSE LET d    == req[r].deviceId
                 rem  == req[r].body.rem
                 used == DevSetUsed(rem)
             IN  /\ device_usage' =
                        IF device_usage[d] = NoRow THEN device_usage
                        ELSE [device_usage EXCEPT ![d].free_chat_tokens = FREE_CHAT_TOKENS,
                                                  ![d].free_chat_used = used]
                 /\ Finish(r, Response(200, "",
                        [remainingFreeChat |-> rem, freeChatTokens |-> FREE_CHAT_TOKENS,
                         freeChatUsed |-> used]))
    /\ UNCHANGED <<start, grantLog>>
    /\ UNCHANGED <<hookVars, bankVars, pureVars>>

\* ---- POST /credits/grant (dev only)
CreditsGrantStart(r) ==
    /\ req[r].pc = "idle"
    /\ \E keyOk \in BOOLEAN, rawId \in RawDeviceIds, productId \in ProductIds :
        LET id     == requireDeviceId(rawId)
            amount == PRODUCT_CREDITS(productId)
        IN  IF ~keyOk
            THEN /\ req' = [req EXCEPT ![r].kind = "grant", ![r].pc = "done",
                              ![r].response = Response(403, "FORBIDDEN", None)]
                 /\ UNCHANGED grantLog
            ELSE IF id = None
            THEN /\ req' = [req EXCEPT ![r].kind = "grant", ![r].pc = "done",
                              ![r].response = Response(400, "MISSING_DEVICE_ID", None)]
                 /\ UNCHANGED grantLog
            ELSE IF amount = 0
            THEN /\ req' = [req EXCEPT ![r].kind = "grant", ![r].pc = "done",
                              ![r].response = Response(400, "UNKNOWN_PRODUCT", None)]
                 /\ UNCHANGED grantLog
            ELSE /\ req' = [req EXCEPT ![r].kind = "grant", ![r].pc = "grant_rpc",
                              ![r].deviceId = id.id, ![r].body = [amount |-> amount]]
                 /\ grantLog' = grantLog \cup
                        {[by |-> <<"request", r>>, device |-> id.id, amount |-> amount]}
    /\ UNCHANGED <<device_usage, start>>
    /\ UNCHANGED <<hookVars, bankVars, pureVars>>

\* rpc grant_pro_credits returns (or fails)
CreditsGrantReturns(r) ==
    /\ req[r].pc = "grant_rpc"
    /\ \E error \in BOOLEAN :
        IF error THEN Finish(r, ServerError) /\ UNCHANGED device_usage
        ELSE LET d   == req[r].deviceId
                 rpc == grant_pro_credits(device_usage[d], req[r].body.amount,
                                          DEFAULT_PRO_BALANCE)
                 res == GrantResult(rpc.out)
             IN  /\ device_usage' = [device_usage EXCEPT ![d] = rpc.row]
                 /\ req' = [req EXCEPT ![r].pc = "done", ![r].result = res,
                                       ![r].response = Response(200, "", res)]
    /\ UNCHANGED <<start, grantLog>>
    /\ UNCHANGED <<hookVars, bankVars, pureVars>>

\* ---- sbSpendCredits and sbGrantCredits called one after the other
\* call r is made once the calls before it have returned
NextCall(r) == req[r].pc = "idle" /\ \A q \in 1..(r - 1) : req[q].pc = "done"

\* a slip in sbSpendCredits: p_cost fixed at 1 whatever the cost asked for
sbSpendCredits_CostOne(r, cost) ==
    /\ NextCall(r)
    /\ \E error \in BOOLEAN :
        LET q == [req[r] EXCEPT !.kind = "spend_call", !.pc = "done", !.deviceId = Dev1,
                                !.body = [cost |-> cost]]
        IN  IF error
            THEN req' = [req EXCEPT ![r] = [q EXCEPT !.response = ServerError]]
                 /\ UNCHANGED device_usage
            ELSE LET rpc == spend_pro_credits(device_usage[Dev1], 1, DEFAULT_PRO_BALANCE)
                 IN  /\ device_usage' = [device_usage EXCEPT ![Dev1] = rpc.row]
                     /\ req' = [req EXCEPT ![r] = [q EXCEPT !.result = SpendResult(rpc.out)]]
    /\ UNCHANGED <<start, grantLog>>
    /\ UNCHANGED <<hookVars, bankVars, pureVars>>

\* sbSpendCredits(deviceId, cost): rpc spend_pro_credits returns (or fails)
sbSpendCredits(r, cost) ==
    /\ NextCall(r)
    /\ \E error \in BOOLEAN :
        LET q == [req[r] EXCEPT !.kind = "spend_call", !.pc = "done", !.deviceId = Dev1,
                                !.body = [cost |-> cost]]
        IN  IF error
            THEN req' = [req EXCEPT ![r] = [q EXCEPT !.response = ServerError]]
                 /\ UNCHANGED device_usage
            ELSE LET rpc == spend_pro_credits(device_usage[Dev1], cost, DEFAULT_PRO_BALANCE)
                 IN  /\ device_usage' = [device_usage EXCEPT ![Dev1] = rpc.row]
                     /\ req' = [req EXCEPT ![r] = [q EXCEPT !.result = SpendResult(rpc.out)]]
    /\ UNCHANGED <<start, grantLog>>
    /\ UNCHANGED <<hookVars, bankVars, pureVars>>

\* sbGrantCredits(deviceId, amount): rpc grant_pro_credits returns (or fails)
sbGrantCredits(r, amount) ==
    /\ NextCall(r)
    /\ \E error \in BOOLEAN :
        LET q == [req[r] EXCEPT !.kind = "grant_call", !.pc = "done", !.deviceId = Dev1,
                                !.body = [amount |-> amount]]
        IN  IF error
            THEN req' = [req EXCEPT ![r] = [q EXCEPT !.response = ServerError]]
                 /\ UNCHANGED device_usage
            ELSE LET rpc == grant_pro_credits(device_usage[Dev1], amount, DEFAULT_PRO_BALANCE)
                 IN  /\ device_usage' = [device_usage EXCEPT ![Dev1] = rpc.row]
                     /\ req' = [req EXCEPT ![r] = [q EXCEPT !.result = GrantResult(rpc.out)]]
    /\ grantLog' = grantLog \cup {[by |-> <<"call", r>>, device |-> Dev1, amount |-> amount]}
    /\ UNCHANGED start
    /\ UNCHANGED <<hookVars, bankVars, pureVars>>

InitLedger ==
    /\ device_usage \in [DeviceKeys -> InitRows]
    /\ device_usage[ShortDev] = NoRow
    /\ start = device_usage
    /\ req = [r \in Requests |-> IdleReq]
    /\ grantLog = {}

LedgerStep(r) ==
    \/ EnsureSelectReturns(r)
    \/ EnsureInsertReturns(r)
    \/ ThoughtStart(r)
    \/ ThoughtEnrichReturns(r)
    \/ ThoughtClassifyReturns(r)
    \/ ThoughtBankReturns(r)
    \/ ThoughtSpendReturns(r)
    \/ ThoughtGenerateReturns(r)
    \/ AskStart(r)
    \/ AskRcReturns(r)
    \/ AskConsumeReturns(r)
    \/ AskClassifyReturns(r)
    \/ AskGenerateReturns(r)
    \/ StatusStart(r)
    \/ StatusSelectReturns(r)
    \/ StatusChatSelectReturns(r)
    \/ DevSetStart(r)
    \/ DevSetUpdateReturns(r)
    \/ CreditsGrantStart(r)
    \/ CreditsGrantReturns(r)

(***************************************************************************)
(* The RevenueCat webhook and its event dedupe table                       *)
(***************************************************************************)
Deliveries == 1..MaxDeliveries

\* JSON values of a payload field, with JavaScript's truthiness and String()
JsNull == [type |-> "null"]
JsStr(text) == [type |-> "string", text |-> text]
JsEmptyArray == [type |-> "array"]

Truthy(v) == \/ v.type = "array"
             \/ v.type = "string" /\ v.text # ""

\* String(v) of a truthy value: a string is itself, an empty array is ""
JsString(v) == IF v.type = "string" THEN v.text ELSE ""

\* crypto.randomUUID() as called by delivery d: a value no other call returns
RandomUUID(d) == [uuid |-> d]

\* a slip in the webhook: the payload's event id dropped, a fresh UUID always used
DedupeKey_AlwaysFresh(eventId, d) == RandomUUID(d)

\* the event id the webhook hands to rcDedupe: String(eventId || crypto.randomUUID())
DedupeKey(eventId, d) ==
    IF Truthy(eventId) THEN [text |-> JsString(eventId)] ELSE RandomUUID(d)

EmptyKey == [text |-> ""]

\* the errors an insert into revenuecat_events may come back with
NoError == [none |-> TRUE]
UniqueViolation ==
    [message |-> <<"duplicate", "key", "value", "violates", "unique", "constraint">>]
FetchFailed == [message |-> <<"TypeError:", "fetch", "failed">>]
NoMessage == [message |-> <<>>]
OtherStoreErrors == {FetchFailed, NoMessage}

ToLowerCase(word) ==
    CASE word = "TypeError:" -> "typeerror:"
      [] word = "Duplicate" -> "duplicate"
      [] word = "Unique" -> "unique"
      [] OTHER -> word

Includes(message, word) == \E i \in 1..Len(message) : ToLowerCase(message[i]) = word

\* a slip in rcDedupe: a unique violation answered as a new event
rcDedupe_DuplicateIsNew(eventId, error) ==
    IF eventId = EmptyKey THEN "new"
    ELSE IF error = NoError THEN "new"
    ELSE IF Includes(error.message, "duplicate") \/ Includes(error.message, "unique")
    THEN "new"
    ELSE "throw"

\* a slip in rcDedupe: an unknown store error swallowed, the event taken as new
rcDedupe_FailOpen(eventId, error) ==
    IF eventId = EmptyKey THEN "new"
    ELSE IF error = NoError THEN "new"
    ELSE IF Includes(error.message, "duplicate") \/ Includes(error.message, "unique")
    THEN "duplicate"
    ELSE "new"

\* rcDedupe's answer for the event id and the error of its insert:
\* "new" (true), "duplicate" (false) or "throw"
rcDedupe(eventId, error) ==
    IF eventId = EmptyKey THEN "new"
    ELSE IF error = NoError THEN "new"
    ELSE IF Includes(error.message, "duplicate") \/ Includes(error.message, "unique")
    THEN "duplicate"
    ELSE "throw"

\* rcDedupe runs the insert only for a non-empty event id
rcDedupeInserts(eventId) == eventId # EmptyKey

\* the event ids, users and products a delivered payload may carry
PayloadEventIds == {JsStr("evt1"), JsStr("evt2"), JsNull, JsEmptyArray}
PayloadUsers == {JsStr("dv1"), JsNull}
PayloadProducts == {"10_smart_thoughts", "weekly_sub"}
Payloads ==
    [eventId : PayloadEventIds, appUserId : PayloadUsers, productId : PayloadProducts]

\* the device_usage key of an app user id
UserDevice(appUserId) == IF appUserId = JsStr("dv1") THEN Dev1 ELSE ShortDev

WebhookAuthConfigured == TRUE

IdleHook ==
    [pc |-> "idle", payload |-> None, key |-> None, isNew |-> "", insertError |-> None,
     response |-> None]

HookFinish(d, resp) == hook' = [hook EXCEPT ![d].pc = "done", ![d].response = resp]

GrantCall(d, p) ==
    [by |-> <<"webhook", d>>, device |-> UserDevice(p.appUserId),
     amount |-> PRODUCT_CREDITS(p.productId)]

\* the handler up to its first await: auth, parsing, and rcDedupe's synchronous part
WebhookStart(d) ==
    /\ hook[d].pc = "idle"
    /\ \E authOk \in BOOLEAN, p \in Payloads :
        LET credits == PRODUCT_CREDITS(p.productId)
            key     == DedupeKey(p.eventId, d)
            h       == [hook[d] EXCEPT !.payload = p]
        IN  IF ~WebhookAuthConfigured
            THEN /\ HookFinish(d, Response(500, "WEBHOOK_AUTH_NOT_CONFIGURED", None))
                 /\ UNCHANGED grantLog
            ELSE IF ~authOk
            THEN /\ HookFinish(d, Response(401, "UNAUTHORIZED", None))
                 /\ UNCHANGED grantLog
            ELSE IF ~(credits > 0 /\ Truthy(p.appUserId))
            THEN /\ hook' = [hook EXCEPT ![d] = [h EXCEPT !.pc = "done",
                        !.response = Response(200, "", [ignored |-> TRUE])]]
                 /\ UNCHANGED grantLog
            ELSE IF rcDedupeInserts(key)
            THEN /\ hook' = [hook EXCEPT ![d] = [h EXCEPT !.pc = "dedupe_insert",
                                                          !.key = key]]
                 /\ UNCHANGED grantLog
            ELSE \* rcDedupe answered without an insert: the handler goes on
                 LET isNew == rcDedupe(key, NoError)
                 IN  IF isNew = "new"
                     THEN /\ hook' = [hook EXCEPT ![d] = [h EXCEPT !.pc = "grant_rpc",
                                            !.key = key, !.isNew = isNew]]
                          /\ grantLog' = grantLog \cup {GrantCall(d, p)}
                     ELSE /\ hook' = [hook EXCEPT ![d] = [h EXCEPT !.pc = "done",
                                            !.key = key, !.isNew = isNew,
                                            !.response = Response(200, "", [deduped |-> TRUE])]]
                          /\ UNCHANGED grantLog
    /\ UNCHANGED <<device_usage, start, revenuecat_events>>
    /\ UNCHANGED <<req, bankVars, pureVars>>

\* the insert into revenuecat_events returns: the store refuses a recorded event id
\* with a unique violation, may fail otherwise, or inserts the row
WebhookDedupeReturns(d) ==
    /\ hook[d].pc = "dedupe_insert"
    /\ \E error \in {NoError} \cup OtherStoreErrors :
        LET key      == hook[d].key
            storeErr == IF error # NoError THEN error
                        ELSE IF key \in revenuecat_events THEN UniqueViolation
                        ELSE NoError
            isNew    == rcDedupe(key, storeErr)
        IN  /\ revenuecat_events' =
                 IF storeErr = NoError THEN revenuecat_events \cup {key}
                 ELSE revenuecat_events
            /\ IF isNew = "throw"
               THEN /\ hook' = [hook EXCEPT ![d].pc = "done", ![d].isNew = isNew,
                                      ![d].insertError = storeErr,
                                      ![d].response = ServerError]
                    /\ UNCHANGED grantLog
               ELSE IF isNew = "duplicate"
               THEN /\ hook' = [hook EXCEPT ![d].pc = "done", ![d].isNew = isNew,
                                      ![d].insertError = storeErr,
                                      ![d].response = Response(200, "", [deduped |-> TRUE])]
                    /\ UNCHANGED grantLog
               ELSE /\ hook' = [hook EXCEPT ![d].pc = "grant_rpc", ![d].isNew = isNew,
                                      ![d].insertError = storeErr]
                    /\ grantLog' = grantLog \cup {GrantCall(d, hook[d].payload)}
    /\ UNCHANGED <<device_usage, start>>
    /\ UNCHANGED <<req, bankVars, pureVars>>

\* rpc grant_pro_credits returns (or fails)
WebhookGrantReturns(d) ==
    /\ hook[d].pc = "grant_rpc"
    /\ \E error \in BOOLEAN :
        IF error THEN HookFinish(d, ServerError) /\ UNCHANGED device_usage
        ELSE LET p   == hook[d].payload
                 u   == UserDevice(p.appUserId)
                 rpc == grant_pro_credits(device_usage[u], PRODUCT_CREDITS(p.productId),
                                          DEFAULT_PRO_BALANCE)
             IN  /\ device_usage' = [device_usage EXCEPT ![u] = rpc.row]
                 /\ HookFinish(d, Response(200, "", [granted |-> GrantResult(rpc.out)]))
    /\ UNCHANGED <<start, grantLog, revenuecat_events>>
    /\ UNCHANGED <<req, bankVars, pureVars>>

InitWebhook ==
    /\ revenuecat_events = {}
    /\ hook = [d \in Deliveries |-> IdleHook]

WebhookStep(d) ==
    \/ WebhookStart(d)
    \/ WebhookDedupeReturns(d)
    \/ WebhookGrantReturns(d)

(***************************************************************************)
(* The daily thought bank: labels, the store, the builder and its lock     *)
(***************************************************************************)
LowerLetters ==
    {"a", "b", "c", "d", "e", "f", "g", "h", "i", "j", "k", "l", "m",
     "n", "o", "p", "q", "r", "s", "t", "u", "v", "w", "x", "y", "z"}

\* a label check that lets a single letter through
isValidLabel_OneLetter(l) ==
    /\ Len(l) >= 1 /\ Len(l) <= 24
    /\ \A i \in 1..Len(l) : l[i] \in LowerLetters

\* /^[a-z]{2,24}$/ on a label given as its characters
isValidLabel(l) ==
    /\ Len(l) >= 2 /\ Len(l) <= 24
    /\ \A i \in 1..Len(l) : l[i] \in LowerLetters

Dog == <<"d", "o", "g">>
Cat == <<"c", "a", "t">>
\* labels the request handlers and the prewarm pass hand on: valid ones only
ValidLabels == {Dog, Cat}
\* labels a direct call of buildBankInBackground may carry
CallLabels == ValidLabels \cup {<<>>, <<"x">>, <<"d", "_", "g">>}
\* CONFIG.PREWARM_LABELS after normalizeLabel, cleanLabel and the isValidLabel filter
PREWARM_LABELS == <<Dog, Cat>>

Days == 0..MaxDay
Callers == 1..MaxCallers
PrewarmSlot(i) == MaxCallers + i
BuildIds == 1..(MaxCallers + Len(PREWARM_LABELS))

\* utcDayKey(): the current UTC day
utcDayKey == today

\* sbGetBankByDate: the row's thoughts, null (0 lines) when there is no row
sbGetBankByDate(label, bankDate) == thought_banks[<<label, bankDate>>]

\* a lookup that orders the rows by bank_date ascending
sbGetLatestBank_Oldest(label) ==
    LET dates == {d \in Days : thought_banks[<<label, d>>] > 0}
    IN  IF dates = {} THEN 0
        ELSE thought_banks[<<label, CHOOSE d \in dates : \A e \in dates : d <= e>>]

\* sbGetLatestBank: the thoughts of the label's row with the greatest bank_date
sbGetLatestBank(label) ==
    LET dates == {d \in Days : thought_banks[<<label, d>>] > 0}
    IN  IF dates = {} THEN 0
        ELSE thought_banks[<<label, CHOOSE d \in dates : \A e \in dates : e <= d>>]

\* busy: whether a build of the label was running when this one was called
\* checked: while the build runs, the day key its look for today's bank was made with
NoBuild == [pc |-> "none", label |-> <<>>, day |-> 0, thoughts |-> 0, outcome |-> "",
            busy |-> FALSE, checked |-> 0]

Running(b) == build[b].pc \in {"recheck", "batch", "upsert"}
RunningFor(l) == {b \in BuildIds : Running(b) /\ build[b].label = l}

\* a builder that never finds the lock taken
LockHeld_Never(label) == FALSE

\* bankBuildLocks.has(label)
LockHeld(label) == label \in bankBuildLocks

\* buildBankInBackground up to its first await: the label check, the lock check, the
\* lock, and the call of sbGetTodaysBank with today's key
StartBuild(b, label) ==
    LET called == [NoBuild EXCEPT !.label = label, !.busy = (RunningFor(label) # {})]
    IN  IF label = <<>> \/ ~isValidLabel(label)
        THEN /\ build' = [build EXCEPT ![b] = [NoBuild EXCEPT !.pc = "done",
                                                               !.outcome = "invalid"]]
             /\ UNCHANGED bankBuildLocks
        ELSE IF LockHeld(label)
        THEN /\ build' = [build EXCEPT ![b] = [called EXCEPT !.pc = "done",
                                                              !.outcome = "locked"]]
             /\ UNCHANGED bankBuildLocks
        ELSE /\ build' = [build EXCEPT ![b] = [called EXCEPT !.pc = "recheck",
                                                              !.day = utcDayKey,
                                                              !.checked = utcDayKey]]
             /\ bankBuildLocks' = bankBuildLocks \cup {label}

\* a builder that ends without releasing the lock
EndBuild_KeepsLock(b, outcome) ==
    /\ build' = [build EXCEPT ![b].pc = "done", ![b].outcome = outcome,
                              ![b].thoughts = 0, ![b].day = 0, ![b].checked = 0]
    /\ UNCHANGED bankBuildLocks

\* a builder whose catch block leaves the lock behind
EndBuild_LeaksOnError(b, outcome) ==
    /\ build' = [build EXCEPT ![b].pc = "done", ![b].outcome = outcome,
                              ![b].thoughts = 0, ![b].day = 0, ![b].checked = 0]
    /\ bankBuildLocks' = IF outcome = "error" THEN bankBuildLocks
                         ELSE bankBuildLocks \ {build[b].label}

\* the finally block: bankBuildLocks.delete(label)
EndBuild(b, outcome) ==
    /\ build' = [build EXCEPT ![b].pc = "done", ![b].outcome = outcome,
                              ![b].thoughts = 0, ![b].day = 0, ![b].checked = 0]
    /\ bankBuildLocks' = bankBuildLocks \ {build[b].label}

\* sbGetTodaysBank(label).catch(() => null) returns
BuildRecheckReturns(b) ==
    /\ build[b].pc = "recheck"
    /\ \E error \in BOOLEAN :
        LET existing == IF error THEN 0 ELSE sbGetBankByDate(build[b].label, build[b].day)
        IN  IF existing > 0 THEN EndBuild(b, "exists")
            ELSE /\ build' = [build EXCEPT ![b].pc = "batch", ![b].thoughts = 0,
                                           ![b].day = 0]
                 /\ UNCHANGED bankBuildLocks
    /\ UNCHANGED <<thought_banks, today, caller, prewarm, upserts>>
    /\ UNCHANGED <<ledgerVars, hookVars, pureVars>>

\* what generateThoughtBatch may return: the number of lines and how many of them
\* the build does not hold yet
Batches ==
    {[len |-> BANK_LEARN_BATCH_SIZE, fresh |-> BANK_LEARN_BATCH_SIZE],
     [len |-> BANK_LEARN_BATCH_SIZE, fresh |-> 0],
     [len |-> 3, fresh |-> 3]}

\* the while condition of the batch loop
LoopContinues(thoughts, batch) ==
    ~(batch.len < BatchBreakThreshold) /\ thoughts < BANK_DAILY_SIZE

\* thoughts.slice(0, CONFIG.BANK_DAILY_SIZE)
Slice(thoughts) == IF thoughts > BANK_DAILY_SIZE THEN BANK_DAILY_SIZE ELSE thoughts

\* generateThoughtBatch returns (or throws): one turn of the loop, and after the
\* loop the size check and the call of sbUpsertBank with today's key
BuildBatchReturns(b) ==
    /\ build[b].pc = "batch"
    /\ \/ EndBuild(b, "error")
       \/ \E batch \in Batches :
            /\ (batch.fresh = 0 /\ batch.len > 0) => build[b].thoughts > 0
            /\ LET thoughts == build[b].thoughts + batch.fresh
               IN  IF LoopContinues(thoughts, batch)
                   THEN /\ build' = [build EXCEPT ![b].thoughts = thoughts]
                        /\ UNCHANGED bankBuildLocks
                   ELSE IF Slice(thoughts) < BANK_LEARN_MIN_ACCEPT
                   THEN EndBuild(b, "too_small")
                   ELSE /\ build' = [build EXCEPT ![b].pc = "upsert",
                                                  ![b].thoughts = Slice(thoughts),
                                                  ![b].day = utcDayKey]
                        /\ UNCHANGED bankBuildLocks
    /\ UNCHANGED <<thought_banks, today, caller, prewarm, upserts>>
    /\ UNCHANGED <<ledgerVars, hookVars, pureVars>>

\* the upsert into thought_banks returns (or fails)
BuildUpsertReturns(b) ==
    /\ build[b].pc = "upsert"
    /\ \E error \in BOOLEAN :
        IF error THEN EndBuild(b, "error") /\ UNCHANGED <<thought_banks, upserts>>
        ELSE /\ thought_banks' =
                    [thought_banks EXCEPT ![<<build[b].label, build[b].day>>] =
                                                build[b].thoughts]
             /\ upserts' = upserts \cup
                    {[by |-> b, label |-> build[b].label, day |-> build[b].day]}
             /\ EndBuild(b, "saved")
    /\ UNCHANGED <<today, caller, prewarm>>
    /\ UNCHANGED <<ledgerVars, hookVars, pureVars>>

IdleCaller == [kind |-> "idle", pc |-> "idle", label |-> <<>>, day |-> 0, result |-> None]

\* ensureDailyBank(label) up to its first await
EnsureStart(c, label) ==
    /\ caller[c].pc = "idle"
    /\ caller' = [caller EXCEPT ![c] = [kind |-> "ensure", pc |-> "todays",
                                        label |-> label, day |-> utcDayKey,
                                        result |-> None]]
    /\ UNCHANGED <<thought_banks, bankBuildLocks, today, build, prewarm, upserts>>
    /\ UNCHANGED <<ledgerVars, hookVars, pureVars>>

\* sbGetBankByDate(label, today).catch(() => null) returns
EnsureTodaysReturns(c) ==
    /\ caller[c].pc = "todays"
    /\ \E error \in BOOLEAN :
        LET todays == IF error THEN 0 ELSE sbGetBankByDate(caller[c].label, caller[c].day)
        IN  IF todays > 0
            THEN caller' = [caller EXCEPT ![c].pc = "done", ![c].day = 0,
                                 ![c].result = [thoughts |-> todays, source |-> "today"]]
            ELSE caller' = [caller EXCEPT ![c].pc = "latest", ![c].day = 0]
    /\ UNCHANGED <<thought_banks, bankBuildLocks, today, build, prewarm, upserts>>
    /\ UNCHANGED <<ledgerVars, hookVars, pureVars>>

\* an ensureDailyBank that awaits the build it calls
EnsureLatestReturns_Awaits(c) ==
    /\ caller[c].pc = "latest"
    /\ StartBuild(c, caller[c].label)
    /\ caller' = [caller EXCEPT ![c].pc = "awaiting", ![c].day = 0]
    /\ UNCHANGED <<thought_banks, today, prewarm, upserts>>
    /\ UNCHANGED <<ledgerVars, hookVars, pureVars>>

\* sbGetLatestBank(label).catch(() => null) returns: the build is fired and the
\* call returns at once, with the latest bank or with nothing
EnsureLatestReturns(c) ==
    /\ caller[c].pc = "latest"
    /\ \E error \in BOOLEAN :
        LET latest == IF error THEN 0 ELSE sbGetLatestBank(caller[c].label)
        IN  /\ StartBuild(c, caller[c].label)
            /\ IF latest > 0
               THEN caller' = [caller EXCEPT ![c].pc = "done", ![c].day = 0,
                        ![c].result = [thoughts |-> latest, source |-> "latest-fallback"]]
               ELSE caller' = [caller EXCEPT ![c].pc = "done", ![c].day = 0,
                        ![c].result = [thoughts |-> 0, source |-> "none"]]
    /\ UNCHANGED <<thought_banks, today, prewarm, upserts>>
    /\ UNCHANGED <<ledgerVars, hookVars, pureVars>>

\* a call of buildBankInBackground(label) from anywhere else
DirectBuildCall(c, label) ==
    /\ caller[c].pc = "idle"
    /\ StartBuild(c, label)
    /\ caller' = [caller EXCEPT ![c] = [kind |-> "direct", pc |-> "done",
                                        label |-> <<>>, day |-> 0,
                                        result |-> None]]
    /\ UNCHANGED <<thought_banks, today, prewarm, upserts>>
    /\ UNCHANGED <<ledgerVars, hookVars, pureVars>>

IdlePrewarm == [pc |-> "idle", i |-> 0, day |-> 0]

\* prewarmHotLabels up to its first await: the lookup of the first label
PrewarmStart ==
    /\ prewarm.pc = "idle"
    /\ prewarm' = [pc |-> "lookup", i |-> 1, day |-> utcDayKey]
    /\ UNCHANGED <<thought_banks, bankBuildLocks, today, build, caller, upserts>>
    /\ UNCHANGED <<ledgerVars, hookVars, pureVars>>

\* a pass that awaits each build it fires: the next lookup returns only once no
\* build fired by the pass is still running
PrewarmLookupReturns_Awaits ==
    /\ prewarm.pc = "lookup"
    /\ \A j \in 1..Len(PREWARM_LABELS) : ~Running(PrewarmSlot(j))
    /\ \E error \in BOOLEAN :
        LET label    == PREWARM_LABELS[prewarm.i]
            existing == IF error THEN 0 ELSE sbGetBankByDate(label, prewarm.day)
        IN  /\ IF existing > 0 THEN UNCHANGED <<build, bankBuildLocks>>
               ELSE StartBuild(PrewarmSlot(prewarm.i), label)
            /\ IF prewarm.i < Len(PREWARM_LABELS)
               THEN prewarm' = [pc |-> "lookup", i |-> prewarm.i + 1, day |-> utcDayKey]
               ELSE prewarm' = [pc |-> "done", i |-> 0, day |-> 0]
    /\ UNCHANGED <<thought_banks, today, caller, upserts>>
    /\ UNCHANGED <<ledgerVars, hookVars, pureVars>>

\* sbGetTodaysBank(label).catch(() => null) returns: the build is fired when nothing
\* was found, and the pass goes on to the next label without awaiting it
PrewarmLookupReturns ==
    /\ prewarm.pc = "lookup"
    /\ \E error \in BOOLEAN :
        LET label    == PREWARM_LABELS[prewarm.i]
            existing == IF error THEN 0 ELSE sbGetBankByDate(label, prewarm.day)
        IN  /\ IF existing > 0 THEN UNCHANGED <<build, bankBuildLocks>>
               ELSE StartBuild(PrewarmSlot(prewarm.i), label)
            /\ IF prewarm.i < Len(PREWARM_LABELS)
               THEN prewarm' = [pc |-> "lookup", i |-> prewarm.i + 1, day |-> utcDayKey]
               ELSE prewarm' = [pc |-> "done", i |-> 0, day |-> 0]
    /\ UNCHANGED <<thought_banks, today, caller, upserts>>
    /\ UNCHANGED <<ledgerVars, hookVars, pureVars>>

\* midnight UTC passes
DayTick ==
    /\ today < MaxDay
    /\ today' = today + 1
    /\ UNCHANGED <<thought_banks, bankBuildLocks, build, caller, prewarm, upserts>>
    /\ UNCHANGED <<ledgerVars, hookVars, pureVars>>

\* the bank side of a fresh process over a store that holds yesterday's bank of
\* one label with the given number of lines (0: an empty store)
BankIdle(stale) ==
    /\ today = 1
    /\ thought_banks = [k \in {Dog, Cat} \X Days |-> IF k = <<Dog, 0>> THEN stale ELSE 0]
    /\ bankBuildLocks = {}
    /\ build = [b \in BuildIds |-> NoBuild]
    /\ caller = [c \in Callers |-> IdleCaller]
    /\ prewarm = IdlePrewarm
    /\ upserts = {}

\* the store the process starts with: empty, or yesterday's bank of one label
InitBank == \E stale \in {0, BANK_DAILY_SIZE} : BankIdle(stale)

BuildStep(b) ==
    \/ BuildRecheckReturns(b)
    \/ BuildBatchReturns(b)
    \/ BuildUpsertReturns(b)

\* the builder under ensureDailyBank and direct calls, over any label and either store
NextBank ==
    \/ \E b \in BuildIds : BuildStep(b)
    \/ \E c \in Callers : \/ \E label \in ValidLabels : EnsureStart(c, label)
                          \/ EnsureTodaysReturns(c)
                          \/ EnsureLatestReturns(c)
                          \/ \E label \in CallLabels : DirectBuildCall(c, label)
    \/ DayTick

\* the label the calls contend for when the prewarm pass runs beside them
HotLabels == {Dog}

\* the builder under every caller it has: ensureDailyBank, direct calls and the
\* prewarm pass
NextBankAll ==
    \/ \E b \in BuildIds : BuildStep(b)
    \/ \E c \in Callers : \/ \E label \in HotLabels : EnsureStart(c, label)
                          \/ EnsureTodaysReturns(c)
                          \/ EnsureLatestReturns(c)
                          \/ \E label \in HotLabels : DirectBuildCall(c, label)
    \/ PrewarmStart
    \/ PrewarmLookupReturns
    \/ DayTick

(***************************************************************************)
(* The word-bounded filter: normalizeThoughtLines, getRelaxedRanges and    *)
(* filterWithAutoRelax. A text is given as the lines text.split("\n")      *)
(* yields, a line as its characters.                                       *)
(***************************************************************************)
\* the characters /^[-\u2022\d.)\s]+/ removes from the start of a line; "*" stands
\* for the bullet U+2022, "0" to "9" for the digits, " " for white space
RECURSIVE DropPrefix(_)
DropPrefix(t) ==
    IF t # <<>> /\ Head(t) \in {"-", "*", ".", ")", " ", "0", "1", "2", "3", "4", "5",
                                 "6", "7", "8", "9"}
    THEN DropPrefix(Tail(t))
    ELSE t

\* String(t || "").replace(/^[-\u2022\d.)\s]+/, "").trim()
stripLinePrefix(t) == Trim(DropPrefix(t))

\* s.split(/\s+/).filter(Boolean).length of the trimmed string: the number of
\* maximal runs of non-space characters
wordCount(str) ==
    LET s == Trim(str)
    IN  Cardinality({i \in 1..Len(s) : ~IsSpace(s[i]) /\ (i = 1 \/ IsSpace(s[i - 1]))})

\* a normalizer that returns the lines it keeps last first
normalizeThoughtLines_Reversed(text, minWords, maxWords) ==
    LET stripped == [i \in 1..Len(text) |-> stripLinePrefix(text[i])]
        Keeps(t) == t # <<>> /\ wordCount(t) >= minWords /\ wordCount(t) <= maxWords
        kept     == SelectSeq(stripped, Keeps)
    IN  [i \in 1..Len(kept) |-> kept[Len(kept) + 1 - i]]

\* the lines of the text, stripped, the empty ones dropped, those kept whose word
\* count lies in [minWords, maxWords]
normalizeThoughtLines(text, minWords, maxWords) ==
    LET stripped == [i \in 1..Len(text) |-> stripLinePrefix(text[i])]
        Keeps(t) == t # <<>> /\ wordCount(t) >= minWords /\ wordCount(t) <= maxWords
    IN  SelectSeq(stripped, Keeps)

\* getRelaxedRanges with the first relaxed range as wide as the second
getRelaxedRanges_Wide(minWords, maxWords) ==
    [r1 |-> [minWords |-> Max(1, minWords - RELAX_2_DELTA_MIN_WORDS),
             maxWords |-> Max(minWords, maxWords + RELAX_2_DELTA_MAX_WORDS)],
     r2 |-> [minWords |-> Max(1, minWords - RELAX_2_DELTA_MIN_WORDS),
             maxWords |-> Max(minWords, maxWords + RELAX_2_DELTA_MAX_WORDS)]]

getRelaxedRanges(minWords, maxWords) ==
    [r1 |-> [minWords |-> Max(1, minWords - RELAX_1_DELTA_MIN_WORDS),
             maxWords |-> Max(minWords, maxWords + RELAX_1_DELTA_MAX_WORDS)],
     r2 |-> [minWords |-> Max(1, minWords - RELAX_2_DELTA_MIN_WORDS),
             maxWords |-> Max(minWords, maxWords + RELAX_2_DELTA_MAX_WORDS)]]

\* filterWithAutoRelax trying the first relaxed range before the strict one
filterWithAutoRelax_RelaxFirst(text, minWords, maxWords) ==
    LET lines    == normalizeThoughtLines(text, minWords, maxWords)
        rr       == getRelaxedRanges(minWords, maxWords)
        relaxed1 == normalizeThoughtLines(text, rr.r1.minWords, rr.r1.maxWords)
        relaxed2 == normalizeThoughtLines(text, rr.r2.minWords, rr.r2.maxWords)
    IN  IF Len(relaxed1) >= FilterThreshold THEN [lines |-> relaxed1, mode |-> "relax1"]
        ELSE IF Len(lines) >= FilterThreshold THEN [lines |-> lines, mode |-> "strict"]
        ELSE IF Len(relaxed2) > 0 THEN [lines |-> relaxed2, mode |-> "relax2"]
        ELSE [lines |-> lines, mode |-> "strict-empty"]

filterWithAutoRelax(text, minWords, maxWords) ==
    LET lines    == normalizeThoughtLines(text, minWords, maxWords)
        rr       == getRelaxedRanges(minWords, maxWords)
        relaxed1 == normalizeThoughtLines(text, rr.r1.minWords, rr.r1.maxWords)
        relaxed2 == normalizeThoughtLines(text, rr.r2.minWords, rr.r2.maxWords)
    IN  IF Len(lines) >= FilterThreshold THEN [lines |-> lines, mode |-> "strict"]
        ELSE IF Len(relaxed1) >= FilterThreshold
        THEN [lines |-> relaxed1, mode |-> "relax1"]
        ELSE IF Len(relaxed2) > 0 THEN [lines |-> relaxed2, mode |-> "relax2"]
        ELSE [lines |-> lines, mode |-> "strict-empty"]

\* a line of n words
Words(n) == [i \in 1..(IF n = 0 THEN 0 ELSE 2 * n - 1) |-> IF i % 2 = 1 THEN "a" ELSE " "]

Copies(line, n) == [i \in 1..n |-> line]

\* spec.md's scenario: 20 lines of 6 to 10 words and 5 lines of 20 words
ScenarioA == Copies(Words(6), 10) \o Copies(Words(20), 5) \o Copies(Words(10), 10)

\* the texts a generation may return: a line of some number of words, plain,
\* bulleted, numbered or padded with spaces, repeated not at all, once, just short of
\* the threshold of the filter, or more, followed by a second line repeated so
FilterTexts ==
    LET Decorate(kind, w) ==
            CASE kind = "bullet"   -> <<"-", " ">> \o w
              [] kind = "numbered" -> <<"1", "2", ".", " ">> \o w
              [] kind = "padded"   -> <<" ", " ">> \o w \o <<" ">>
        LineShapes ==
            {Words(n) : n \in {0, 1, 2, 3, 4, 5, 6, 10, 15, 16, 19, 20, 23, 24}}
                \cup {Decorate(kind, Words(n)) : kind \in {"bullet", "numbered", "padded"},
                                                  n \in {0, 2, 5, 19}}
        CopyCounts == {0, 1, FilterThreshold - 1, MaxCopies}
    IN  {Copies(l1, n1) \o Copies(l2, n2) :
            l1 \in LineShapes, l2 \in {Words(n) : n \in {2, 3, 5, 16, 20, 23}},
            n1 \in CopyCounts, n2 \in CopyCounts} \cup {ScenarioA}

\* the ranges a caller may ask for: the free range of CONFIG, narrow ones, an empty one
FilterRanges ==
    {[minWords |-> FREE_THOUGHT_MIN_WORDS, maxWords |-> FREE_THOUGHT_MAX_WORDS],
     [minWords |-> 1, maxWords |-> 1],
     [minWords |-> 3, maxWords |-> 4],
     [minWords |-> 6, maxWords |-> 2]}

InitFilter ==
    \E text \in FilterTexts, range \in FilterRanges :
        filter = [text |-> text, minWords |-> range.minWords, maxWords |-> range.maxWords,
                  result |-> None]

\* no text is being filtered
FilterIdle == filter = [text |-> <<>>, minWords |-> 0, maxWords |-> 0, result |-> None]

\* one call of filterWithAutoRelax
FilterApply ==
    /\ filter.result = None
    /\ filter.text # <<>>
    /\ filter' = [filter EXCEPT
                    !.result = filterWithAutoRelax(filter.text, filter.minWords,
                                                   filter.maxWords)]
    /\ UNCHANGED <<ledgerVars, hookVars, bankVars, lineBuild, norm, cacheVars>>

(***************************************************************************)
(* One run of buildBankInBackground for one valid label on one UTC day,    *)
(* with the lines of every batch spelled out: generateThoughtBatch passes  *)
(* the generated text through filterWithAutoRelax and                      *)
(* ensureSingleEndingEmoji, the loop accumulates and deduplicates, and     *)
(* sbUpsertBank cleans and writes the row. An absent row reads as <<>>.    *)
(***************************************************************************)
\* "S" stands for the emoji the code appends, "H" for any other emoji
ensureSingleEndingEmoji(text) ==
    LET t == Trim(text)
    IN  IF t = <<>> THEN t
        ELSE IF t[Len(t)] \in {"S", "H"} THEN t
        ELSE t \o <<" ", "S">>

\* a generateThoughtBatch that hands on every line of the text, unfiltered
generateThoughtBatch_Unfiltered(text) ==
    [i \in 1..Len(text) |-> ensureSingleEndingEmoji(text[i])]

\* what generateThoughtBatch makes of the text the generation returned
generateThoughtBatch(text) ==
    LET lines == filterWithAutoRelax(text, FREE_THOUGHT_MIN_WORDS,
                                     FREE_THOUGHT_MAX_WORDS).lines
    IN  [i \in 1..Len(lines) |-> ensureSingleEndingEmoji(lines[i])]

RECURSIVE DedupeFrom(_, _, _)
DedupeFrom(s, i, acc) ==
    IF i > Len(s) THEN acc
    ELSE IF \E j \in 1..Len(acc) : acc[j] = s[i] THEN DedupeFrom(s, i + 1, acc)
    ELSE DedupeFrom(s, i + 1, Append(acc, s[i]))

\* [...new Set(thoughts)] with every line counted anew
Dedupe_KeepsAll(s) == s

\* [...new Set(thoughts)]: the first occurrence of every line, in order
Dedupe(s) == DedupeFrom(s, 1, <<>>)

\* thoughts.filter(string).map(trim).filter(Boolean) of sbUpsertBank
cleanThoughts(thoughts) ==
    LET NonEmpty(t) == t # <<>>
    IN  SelectSeq([i \in 1..Len(thoughts) |-> Trim(thoughts[i])], NonEmpty)

\* thoughts.slice(0, BANK_DAILY_SIZE)
SliceLines(thoughts) ==
    IF Len(thoughts) > BANK_DAILY_SIZE THEN SubSeq(thoughts, 1, BANK_DAILY_SIZE)
    ELSE thoughts

\* the n-th line a generation can think of: a word naming it and four more
LineOf(n) ==
    LET Digit(d) == <<"0", "1", "2", "3", "4", "5", "6", "7", "8", "9">>[d + 1]
    IN  <<"w", Digit(n \div 100), Digit((n \div 10) % 10), Digit(n % 10)>>
            \o <<" ">> \o Words(4)

\* the texts a generation may return to a build that has gathered `have` lines: 25
\* lines not returned before; the 25 lines or the 8 lines it returns every time; 3
\* usable lines among over-long ones; two lines as long as the widest range allows,
\* one of them with its emoji, among over-long ones; nothing usable. Every other line is written
\* with an emoji of its own, and a text of 25 lines holds its first line once more
\* with the emoji the code would append.
GeneratedTexts(have) ==
    LET Written(n) == LineOf(n) \o (IF n % 2 = 0 THEN <<" ", "H">> ELSE <<>>)
        TwentyFive(n) ==
            [i \in 1..BANK_LEARN_BATCH_SIZE |->
                IF i < BANK_LEARN_BATCH_SIZE THEN Written(n + i - 1)
                ELSE LineOf(n) \o <<" ", "S">>]
    IN  {TwentyFive(have + 1),
         TwentyFive(1),
         SubSeq(TwentyFive(1), 1, BatchBreakThreshold),
         [i \in 1..BANK_LEARN_BATCH_SIZE |->
            IF i <= 3 THEN Written(have + i) ELSE Words(30)],
         [i \in 1..BANK_LEARN_BATCH_SIZE |->
            IF i = 1 THEN LineOf(have + 1) \o <<" ">> \o Words(18)
            ELSE IF i = 2 THEN LineOf(have + 2) \o <<" ">> \o Words(17) \o <<" ", "H">>
            ELSE Words(30)],
         Copies(Words(30), BANK_LEARN_BATCH_SIZE)}

LineBuildIdle ==
    lineBuild = [pc |-> "idle", locked |-> FALSE, thoughts |-> <<>>, batch |-> <<>>,
                 stored |-> <<>>, prior |-> <<>>, outcome |-> ""]

\* the row of the label and day: absent, or a bank an earlier build saved
InitLineBuild ==
    \E row \in {<<>>, generateThoughtBatch([i \in 1..BANK_LEARN_MIN_ACCEPT |->
                                                LineOf(900 + i)])} :
        lineBuild = [pc |-> "idle", locked |-> FALSE, thoughts |-> <<>>, batch |-> <<>>,
                     stored |-> row, prior |-> row, outcome |-> ""]

\* return or catch, then the finally block
LineBuildEnds(outcome) ==
    [lineBuild EXCEPT !.pc = "done", !.outcome = outcome, !.locked = FALSE]

\* the lock is free: take it and look for today's bank
LineBuildStart ==
    /\ lineBuild.pc = "idle"
    /\ ~lineBuild.locked
    /\ lineBuild' = [lineBuild EXCEPT !.pc = "recheck", !.locked = TRUE]
    /\ UNCHANGED <<ledgerVars, hookVars, bankVars, filter, norm, cacheVars>>

\* sbGetTodaysBank(label).catch(() => null) returns
LineRecheckReturns ==
    /\ lineBuild.pc = "recheck"
    /\ \E storeFails \in BOOLEAN :
        LET existing == IF storeFails THEN <<>> ELSE lineBuild.stored
        IN  lineBuild' = IF Len(existing) > 0 THEN LineBuildEnds("exists")
                         ELSE [lineBuild EXCEPT !.pc = "batch"]
    /\ UNCHANGED <<ledgerVars, hookVars, bankVars, filter, norm, cacheVars>>

\* one round of the loop: generateThoughtBatch returns or throws
LineBatchReturns ==
    /\ lineBuild.pc = "batch"
    /\ \/ lineBuild' = LineBuildEnds("error")
       \/ \E text \in GeneratedTexts(Len(lineBuild.thoughts)) :
            LET batch    == generateThoughtBatch(text)
                thoughts == Dedupe(lineBuild.thoughts \o batch)
                sliced   == SliceLines(thoughts)
            IN  lineBuild' =
                    IF Len(batch) >= BatchBreakThreshold /\ Len(thoughts) < BANK_DAILY_SIZE
                    THEN [lineBuild EXCEPT !.thoughts = thoughts, !.batch = batch]
                    ELSE IF Len(sliced) < BANK_LEARN_MIN_ACCEPT
                    THEN [LineBuildEnds("too_small") EXCEPT
                            !.thoughts = sliced, !.batch = batch]
                    ELSE [lineBuild EXCEPT
                            !.pc = "upsert", !.thoughts = sliced, !.batch = batch]
    /\ UNCHANGED <<ledgerVars, hookVars, bankVars, filter, norm, cacheVars>>

\* sbUpsertBank returns or throws
LineUpsertReturns ==
    /\ lineBuild.pc = "upsert"
    /\ \/ lineBuild' = LineBuildEnds("error")
       \/ lineBuild' = [LineBuildEnds("saved") EXCEPT
                            !.stored = cleanThoughts(lineBuild.thoughts)]
    /\ UNCHANGED <<ledgerVars, hookVars, bankVars, filter, norm, cacheVars>>

(***************************************************************************)
(* ensureSingleEndingEmoji applied to the lines a batch accepts. "H" is a  *)
(* pictographic emoji, "V" the variation selector U+FE0F that follows      *)
(* emoji such as the red heart, which the pattern of the code does not     *)
(* match.                                                                  *)
(***************************************************************************)
NormIdle == norm = [line |-> <<>>, once |-> None, twice |-> None]

\* the lines filterWithAutoRelax may hand on: trimmed, not empty, ending in no emoji,
\* in one, in two, in one with its variation selector, in a full stop
InitNorm ==
    \E n \in {2, 5, 10, 15, 19, 23},
       ending \in {<<>>, <<".">>, <<" ", "H">>, <<"H">>, <<" ", "S">>, <<" ", "H", "H">>,
                   <<" ", "H", "V">>, <<" ", "H", ".">>} :
        norm = [line |-> Words(n) \o ending, once |-> None, twice |-> None]

\* lines.map(ensureSingleEndingEmoji) on the line
NormOnce ==
    /\ norm.line # <<>>
    /\ norm.once = None
    /\ norm' = [norm EXCEPT !.once = ensureSingleEndingEmoji(norm.line)]
    /\ UNCHANGED <<ledgerVars, hookVars, bankVars, filter, lineBuild, cacheVars>>

\* ensureSingleEndingEmoji on its own result
NormTwice ==
    /\ norm.once # None
    /\ norm.twice = None
    /\ norm' = [norm EXCEPT !.twice = ensureSingleEndingEmoji(norm.once)]
    /\ UNCHANGED <<ledgerVars, hookVars, bankVars, filter, lineBuild, cacheVars>>

(***************************************************************************)
(* The subject cache: subjectCacheGet and subjectCacheSet over the Map     *)
(* subjectCache. A Map iterates in the order its keys were first inserted; *)
(* a key stands for the SHA-1 of an image.                                 *)
(***************************************************************************)
CachePosition(cache, key) ==
    IF \E i \in 1..Len(cache) : cache[i].key = key
    THEN CHOOSE i \in 1..Len(cache) : cache[i].key = key
    ELSE 0

\* a cache whose entries are gone at the instant they expire
subjectCacheGet_ExpiresEarly(cache, key, now) ==
    LET i == CachePosition(cache, key)
        Other(e) == e.key # key
    IN  IF i = 0 THEN [out |-> None, cache |-> cache]
        ELSE IF now >= cache[i].expiresAt
        THEN [out |-> None, cache |-> SelectSeq(cache, Other)]
        ELSE [out |-> [label |-> cache[i].label, expiresAt |-> cache[i].expiresAt],
              cache |-> cache]

\* subjectCacheGet(key) at the time now: what it returns and the Map it leaves
subjectCacheGet(cache, key, now) ==
    LET i == CachePosition(cache, key)
        Other(e) == e.key # key
    IN  IF i = 0 THEN [out |-> None, cache |-> cache]
        ELSE IF now > cache[i].expiresAt
        THEN [out |-> None, cache |-> SelectSeq(cache, Other)]
        ELSE [out |-> [label |-> cache[i].label, expiresAt |-> cache[i].expiresAt],
              cache |-> cache]

\* a cache that evicts the entry inserted last
subjectCacheSet_EvictsNewest(cache, key, value) ==
    LET kept == IF Len(cache) >= SUBJECT_CACHE_MAX
                THEN SubSeq(cache, 1, Len(cache) - 1) ELSE cache
        i    == CachePosition(kept, key)
        e    == [key |-> key, label |-> value.label, expiresAt |-> value.expiresAt]
    IN  IF i = 0 THEN Append(kept, e) ELSE [kept EXCEPT ![i] = e]

\* subjectCacheSet(key, value): at capacity the first key of the Map is deleted; then
\* Map.prototype.set, which keeps the place of a key the Map holds
subjectCacheSet(cache, key, value) ==
    LET kept == IF Len(cache) >= SUBJECT_CACHE_MAX THEN Tail(cache) ELSE cache
        i    == CachePosition(kept, key)
        e    == [key |-> key, label |-> value.label, expiresAt |-> value.expiresAt]
    IN  IF i = 0 THEN Append(kept, e) ELSE [kept EXCEPT ![i] = e]

\* the fingerprints the calls are made with: the two the Map holds longest when it
\* is full, and two it does not hold at first
CacheKeys == {1, 2, SUBJECT_CACHE_MAX + 1, SUBJECT_CACHE_MAX + 2}

\* sets: for every fingerprint, the value of the last subjectCacheSet call, with
\* the empty label for one never set
CacheEnv(now, ops, call, out, sets) ==
    [now |-> now, ops |-> ops, call |-> call, out |-> out, sets |-> sets]

\* a Map that n images set at time 0
CacheFilled(n) ==
    /\ subjectCache = [i \in 1..n |-> [key |-> i, label |-> "dog",
                                       expiresAt |-> SUBJECT_CACHE_TTL_MS]]
    /\ cacheEnv = CacheEnv(0, 0, [kind |-> "none", key |-> 0], None,
                           [k \in CacheKeys |->
                                IF k <= n THEN [label |-> "dog",
                                                expiresAt |-> SUBJECT_CACHE_TTL_MS]
                                ELSE [label |-> "", expiresAt |-> 0]])

\* a fresh process, or one whose Map is one entry short of full, or full
InitCache == \E n \in {0, SUBJECT_CACHE_MAX - 1, SUBJECT_CACHE_MAX} : CacheFilled(n)

\* classifySubjectOnly reads the cache
CacheGet(key) ==
    /\ cacheEnv.ops < MaxCacheOps
    /\ LET r == subjectCacheGet(subjectCache, key, cacheEnv.now)
       IN  /\ subjectCache' = r.cache
           /\ cacheEnv' = CacheEnv(cacheEnv.now, cacheEnv.ops + 1,
                                   [kind |-> "get", key |-> key], r.out, cacheEnv.sets)
    /\ UNCHANGED <<ledgerVars, hookVars, bankVars, filter, lineBuild, norm>>

\* classifySubjectOnly stores a classification for SUBJECT_CACHE_TTL_MS
CacheSet(key, label) ==
    /\ cacheEnv.ops < MaxCacheOps
    /\ LET value == [label |-> label, expiresAt |-> cacheEnv.now + SUBJECT_CACHE_TTL_MS]
       IN  /\ subjectCache' = subjectCacheSet(subjectCache, key, value)
           /\ cacheEnv' = CacheEnv(cacheEnv.now, cacheEnv.ops + 1,
                                   [kind |-> "set", key |-> key], None,
                                   [cacheEnv.sets EXCEPT ![key] = value])
    /\ UNCHANGED <<ledgerVars, hookVars, bankVars, filter, lineBuild, norm>>

\* time passes: a millisecond, or the time an entry lives
CacheClockTick ==
    /\ cacheEnv.ops < MaxCacheOps
    /\ \E ms \in {1, SUBJECT_CACHE_TTL_MS} :
        cacheEnv' = CacheEnv(cacheEnv.now + ms, cacheEnv.ops + 1,
                             [kind |-> "tick", key |-> 0], None, cacheEnv.sets)
    /\ UNCHANGED <<ledgerVars, hookVars, bankVars, filter, lineBuild, norm, subjectCache>>

(***************************************************************************)
(* Specifications                                                          *)
(***************************************************************************)
\* requests against seeded or unknown devices; no webhook delivery, no bank call
InitLedgerOnly == InitLedger /\ InitWebhook /\ BankIdle(0) /\ FilterIdle /\ LineBuildIdle
        /\ NormIdle /\ CacheFilled(0)

NextLedger == \E r \in Requests : LedgerStep(r)

SpecLedger == InitLedgerOnly /\ [][NextLedger]_vars

InitWebhookLedger ==
    /\ device_usage = [d \in DeviceKeys |-> NoRow]
    /\ start = device_usage
    /\ req = [r \in Requests |-> IdleReq]
    /\ grantLog = {}

\* webhook deliveries for unknown devices; no request, no bank call
InitWebhookOnly == InitWebhookLedger /\ InitWebhook /\ BankIdle(0) /\ FilterIdle /\ LineBuildIdle
        /\ NormIdle /\ CacheFilled(0)

NextWebhook == \E d \in Deliveries : WebhookStep(d)

SpecWebhook == InitWebhookOnly /\ [][NextWebhook]_vars

\* the bank over an empty store or one with yesterday's bank of one label
InitBankOnly == InitWebhookLedger /\ InitWebhook /\ InitBank /\ FilterIdle /\ LineBuildIdle
        /\ NormIdle /\ CacheFilled(0)

\* the bank over a store with yesterday's bank of the contended label
InitBankAll ==
    InitWebhookLedger /\ InitWebhook /\ BankIdle(BANK_DAILY_SIZE) /\ FilterIdle /\ LineBuildIdle
        /\ NormIdle /\ CacheFilled(0)

SpecBank == InitBankOnly /\ [][NextBank]_vars

SpecBankAll == InitBankAll /\ [][NextBankAll]_vars

\* the two pro-credit helpers alone, called one after the other for one device
\* that is unknown, nearly exhausted or exhausted
InitPoolOnly ==
    /\ device_usage \in [DeviceKeys -> InitRows]
    /\ device_usage[ShortDev] = NoRow
    /\ start = device_usage
    /\ req = [r \in 1..MaxPoolCalls |-> IdleReq]
    /\ grantLog = {}
    /\ InitWebhook /\ BankIdle(0) /\ FilterIdle /\ LineBuildIdle /\ NormIdle /\ CacheFilled(0)

NextPool ==
    \/ \E r \in 1..MaxPoolCalls, cost \in {1, 2} : sbSpendCredits(r, cost)
    \/ \E r \in 1..MaxPoolCalls, amount \in {1, 2} : sbGrantCredits(r, amount)

SpecPool == InitPoolOnly /\ [][NextPool]_vars

\* the prewarm pass alone with the builds it fires, over an empty store or one
\* with yesterday's bank of one label
InitPrewarmOnly ==
    InitWebhookLedger /\ InitWebhook /\ InitBank /\ FilterIdle /\ LineBuildIdle
        /\ NormIdle /\ CacheFilled(0)

NextPrewarm ==
    \/ \E b \in BuildIds : BuildStep(b)
    \/ PrewarmStart
    \/ PrewarmLookupReturns
    \/ DayTick

\* the store answers every lookup of the pass; a build may fail, and nothing
\* makes a build go on: the calls it awaits may never return
SpecPrewarmLive ==
    InitPrewarmOnly /\ [][NextPrewarm]_vars /\ WF_vars(PrewarmLookupReturns)

\* the filter alone, applied to one text
InitFilterOnly ==
    InitWebhookLedger /\ InitWebhook /\ BankIdle(0) /\ InitFilter /\ LineBuildIdle
        /\ NormIdle /\ CacheFilled(0)

NextFilter == FilterApply

SpecFilter == InitFilterOnly /\ [][NextFilter]_vars

\* the emoji normalizer alone, applied to one line
InitNormOnly ==
    InitWebhookLedger /\ InitWebhook /\ BankIdle(0) /\ FilterIdle /\ LineBuildIdle
        /\ InitNorm /\ CacheFilled(0)

NextNorm == NormOnce \/ NormTwice

SpecNorm == InitNormOnly /\ [][NextNorm]_vars

\* the subject cache alone
InitCacheOnly ==
    InitWebhookLedger /\ InitWebhook /\ BankIdle(0) /\ FilterIdle /\ LineBuildIdle
        /\ NormIdle /\ InitCache

NextCache ==
    \/ \E key \in CacheKeys : CacheGet(key)
    \/ \E key \in CacheKeys, label \in {"dog", "cat"} : CacheSet(key, label)
    \/ CacheClockTick

SpecCache == InitCacheOnly /\ [][NextCache]_vars

\* one build with its lines
InitBuildLines ==
    InitWebhookLedger /\ InitWebhook /\ BankIdle(0) /\ FilterIdle /\ InitLineBuild
        /\ NormIdle /\ CacheFilled(0)

NextBuildLines ==
    \/ LineBuildStart
    \/ LineRecheckReturns
    \/ LineBatchReturns
    \/ LineUpsertReturns

SpecBuildLines == InitBuildLines /\ [][NextBuildLines]_vars

\* every call the build awaits returns: a step of the build that can be taken is
\* taken
SpecBuildLinesLive == SpecBuildLines /\ WF_vars(NextBuildLines)

(***************************************************************************)
(* Claims about the ledger                                                 *)
(***************************************************************************)
RemainingPro(row) ==
    IF row = NoRow THEN DEFAULT_PRO_BALANCE ELSE Max(0, row.pro_tokens - row.pro_used)
RemainingChat(row) ==
    IF row = NoRow THEN FREE_CHAT_TOKENS
    ELSE Max(0, row.free_chat_tokens - row.free_chat_used)

\* the requests whose sbSpendCredits / sbConsumeFreeChat call returned ok = true
OkSpends(d) ==
    {r \in Requests : /\ req[r].kind = "thought" /\ req[r].deviceId = d
                      /\ req[r].result # None /\ req[r].result.ok}
OkConsumes(d) ==
    {r \in Requests : /\ req[r].kind = "ask" /\ req[r].deviceId = d
                      /\ req[r].result # None /\ req[r].result.ok}
RefusedSpends(d) ==
    {r \in Requests : /\ req[r].kind = "thought" /\ req[r].deviceId = d
                      /\ req[r].result # None /\ ~req[r].result.ok}
RefusedConsumes(d) ==
    {r \in Requests : /\ req[r].kind = "ask" /\ req[r].deviceId = d
                      /\ req[r].result # None /\ ~req[r].result.ok}

RECURSIVE SumAmounts(_)
SumAmounts(S) ==
    IF S = {} THEN 0
    ELSE LET g == CHOOSE x \in S : TRUE IN g.amount + SumAmounts(S \ {g})

\* the credits granted to d since the requests were launched
GrantedSince(d) ==
    SumAmounts({[by |-> r, amount |-> req[r].body.amount] :
                    r \in {x \in Requests : /\ req[x].kind = "grant" /\ req[x].deviceId = d
                                             /\ req[x].pc = "done"
                                             /\ req[x].response.status = 200}})
\* the dev resets of d's free chat pool that were written
ResetsDone(d) ==
    {r \in Requests : /\ req[r].kind = "devset" /\ req[r].deviceId = d
                      /\ req[r].pc = "done" /\ req[r].response.status = 200}

\* C1: of the concurrent spends of one account and pool, no more return ok = true
\* than the pool's remaining balance when they were launched (plus what was granted,
\* or reset, meanwhile): two spenders never both succeed past the limit.
C1_NoOverspend ==
    \A d \in Devices :
        /\ Cardinality(OkSpends(d)) <= RemainingPro(start[d]) + GrantedSince(d)
        /\ Cardinality(OkConsumes(d)) <=
               RemainingChat(start[d]) + FREE_CHAT_TOKENS * Cardinality(ResetsDone(d))

\* two spends raced for the last credit: one returned ok, the other was refused
C1_Witness ==
    /\ start[Dev1] # NoRow
    /\ RemainingPro(start[Dev1]) = 1
    /\ grantLog = {}
    /\ OkSpends(Dev1) # {}
    /\ RefusedSpends(Dev1) # {}

\* what soundness of rows and of balance reports means
RowSound(row) ==
    row # NoRow =>
        /\ row.pro_used <= row.pro_tokens
        /\ row.free_chat_used <= row.free_chat_tokens

ProReportSound(p) == p.remainingPro = Max(0, p.proTokens - p.proUsed)
ChatReportSound(p) == p.remainingFreeChat = Max(0, p.freeChatTokens - p.freeChatUsed)

ReportSound(q) ==
    /\ (q.kind \in {"thought", "grant"} /\ q.result # None) => ProReportSound(q.result)
    /\ (q.kind = "ask" /\ q.result # None) => ChatReportSound(q.result)
    /\ (q.kind = "status" /\ q.result # None) => ProReportSound(q.result)
    /\ (q.kind = "status" /\ q.pc = "done" /\ q.response.status = 200) =>
            ProReportSound(q.response.payload) /\ ChatReportSound(q.response.payload)
    /\ (q.kind = "devset" /\ q.pc = "done" /\ q.response.status = 200) =>
            ChatReportSound(q.response.payload)

\* C2: in every row used <= granted in both pools, and every balance report handed
\* to a caller has remaining = max(0, granted - used).
C2_UsedAtMostGranted ==
    /\ \A d \in DeviceKeys : RowSound(device_usage[d])
    /\ \A r \in Requests : ReportSound(req[r])

\* a dev reset to the full balance was written and a free-chat consume succeeded
C2_Witness ==
    /\ \E r \in Requests : /\ req[r].kind = "devset" /\ req[r].pc = "done"
                           /\ req[r].response.status = 200
                           /\ req[r].body.rem = FREE_CHAT_TOKENS
    /\ OkConsumes(Dev1) # {}

\* C3 (as claimed): when a paid generation call fails after a successful spend, the
\* handler has issued a grant of the spent amount for the account by the time it
\* answers.
RefundIssued(r) ==
    \E g \in grantLog' :
        /\ g.by = <<"request", r>> /\ g.device = req[r].deviceId /\ g.amount = 1

C3_RefundOnFailure ==
    [][\A r \in Requests :
          (/\ req[r].pc \in {"generate", "ask_generate"}
           /\ req[r].result # None /\ req[r].result.ok
           /\ req'[r].pc = "done" /\ req'[r].response = ServerError)
          => RefundIssued(r)]_vars

\* the spend or consume of one unit would take used past granted
WouldExceedPro(row) ==
    LET base == IF row = NoRow THEN SeedRow ELSE row
    IN  base.pro_used + 1 > base.pro_tokens
WouldExceedChat(row) ==
    LET base == IF row = NoRow THEN SeedRow ELSE row
    IN  base.free_chat_used + 1 > base.free_chat_tokens

\* C4: a spend that would take used past granted is answered with a refusal, not an
\* error: the limit-reached response carries the account's remaining balance, and
\* the row is left as it was.
C4_RefusalKeepsBalances ==
    [][\A r \in Requests :
          /\ (/\ req[r].pc = "spend" /\ req'[r].result # None
              /\ WouldExceedPro(device_usage[req[r].deviceId]))
             => /\ req'[r].pc = "done"
                /\ req'[r].response.status # 500
                /\ req'[r].response.error = "PRO_LIMIT_REACHED"
                /\ req'[r].response.payload.remainingPro =
                       RemainingPro(device_usage'[req[r].deviceId])
                /\ device_usage' = device_usage
          /\ (/\ req[r].pc = "consume_rpc" /\ req'[r].result # None
              /\ WouldExceedChat(device_usage[req[r].deviceId]))
             => /\ req'[r].pc = "done"
                /\ req'[r].response.status # 500
                /\ req'[r].response.error = "FREE_CHAT_LIMIT_REACHED"
                /\ req'[r].response.payload.remainingFreeChat =
                       RemainingChat(device_usage'[req[r].deviceId])
                /\ req'[r].response.payload.freeChatTokens =
                       device_usage'[req[r].deviceId].free_chat_tokens
                /\ req'[r].response.payload.freeChatUsed =
                       device_usage'[req[r].deviceId].free_chat_used
                /\ device_usage' = device_usage]_vars

\* both refusals were answered
C4_Witness ==
    /\ \E r \in Requests : /\ req[r].pc = "done"
                           /\ req[r].response.error = "PRO_LIMIT_REACHED"
    /\ \E r \in Requests : /\ req[r].pc = "done"
                           /\ req[r].response.error = "FREE_CHAT_LIMIT_REACHED"

(***************************************************************************)
(* Claims about the webhook                                                *)
(***************************************************************************)
\* the event ids a payload can name
NamedKeys == {[text |-> JsString(e)] : e \in {x \in PayloadEventIds : Truthy(x)}} \ {EmptyKey}

DeliveriesOf(k) == {d \in Deliveries : hook[d].key = k}
NewOf(k) == {d \in DeliveriesOf(k) : hook[d].isNew = "new"}
GrantCallsBy(D) == {g \in grantLog : \E d \in D : g.by = <<"webhook", d>>}
Granted(d) ==
    /\ hook[d].pc = "done"
    /\ hook[d].response.status = 200
    /\ hook[d].isNew = "new"

\* C5: for one event id, exactly one check-and-record answers "new" once the id is
\* recorded, every other one answers "duplicate" on the store's unique violation
\* without raising, and the deliveries of that event call the grant exactly once.
C5_DedupeOnce ==
    \A k \in NamedKeys :
        /\ Cardinality(NewOf(k)) = (IF k \in revenuecat_events THEN 1 ELSE 0)
        /\ Cardinality(GrantCallsBy(DeliveriesOf(k))) = Cardinality(NewOf(k))
        /\ \A d \in DeliveriesOf(k) :
            /\ hook[d].insertError = UniqueViolation => hook[d].isNew = "duplicate"
            /\ hook[d].isNew = "duplicate" =>
                    /\ k \in revenuecat_events
                    /\ hook[d].response = Response(200, "", [deduped |-> TRUE])
            /\ hook[d].isNew = "throw" => hook[d].insertError \in OtherStoreErrors

\* one event delivered twice: recorded and granted by one, answered as a duplicate
\* to the other
C5_Witness ==
    \E d1, d2 \in Deliveries :
        /\ hook[d1].key = [text |-> "evt1"] /\ hook[d2].key = [text |-> "evt1"]
        /\ Granted(d1)
        /\ hook[d2].pc = "done" /\ hook[d2].isNew = "duplicate"

AcceptedPayloads ==
    {p \in Payloads : PRODUCT_CREDITS(p.productId) > 0 /\ Truthy(p.appUserId)}
GrantedFor(p) == {d \in Deliveries : hook[d].payload = p /\ Granted(d)}

\* C6 (as claimed): whatever accepted payload is delivered, with or without an event
\* id, its deliveries raise the granted balance at most once.
C6_IdempotentAnyPayload ==
    \A p \in AcceptedPayloads : Cardinality(GrantedFor(p)) <= 1

\* C6 (amended): the deliveries of an accepted payload that names an event id (one
\* whose string form is not empty) raise the granted balance at most once, by the
\* product's credits.
NamesEvent(p) == Truthy(p.eventId) /\ JsString(p.eventId) # ""

C6_IdempotentNamedEvent ==
    /\ \A p \in AcceptedPayloads : NamesEvent(p) => Cardinality(GrantedFor(p)) <= 1
    /\ LET row == device_usage[Dev1]
           n   == Cardinality({d \in Deliveries : Granted(d)})
       IN  IF row = NoRow THEN n = 0
           ELSE row.pro_tokens = DEFAULT_PRO_BALANCE + PRODUCT_CREDITS("10_smart_thoughts") * n

\* the same named payload was delivered three times and raised the balance once
C6_Witness ==
    \E p \in AcceptedPayloads :
        /\ NamesEvent(p)
        /\ \A d \in Deliveries : hook[d].payload = p /\ hook[d].pc = "done"
        /\ Cardinality(GrantedFor(p)) = 1
        /\ device_usage[Dev1].pro_tokens =
               DEFAULT_PRO_BALANCE + PRODUCT_CREDITS(p.productId)

\* C7 (as claimed): every grant the webhook calls is for an event whose dedupe
\* record was inserted before the call.
C7_GrantOnlyAfterRecord ==
    \A g \in grantLog :
        \E d \in Deliveries : g.by = <<"webhook", d>> /\ hook[d].key \in revenuecat_events

\* C8: when the dedupe insert fails with an error that is no unique violation,
\* rcDedupe throws, the webhook answers 500 and the delivery calls no grant.
C8_FailClosed ==
    \A d \in Deliveries :
        hook[d].insertError \in OtherStoreErrors =>
            /\ hook[d].isNew = "throw"
            /\ hook[d].pc = "done"
            /\ hook[d].response = ServerError
            /\ GrantCallsBy({d}) = {}
            /\ hook[d].key \notin revenuecat_events
                  \/ \E e \in Deliveries : e # d /\ hook[e].key = hook[d].key
                                                 /\ hook[e].isNew = "new"

\* a delivery's insert failed with a network error and was answered 500, while
\* another delivery of the same event went through
C8_Witness ==
    \E d, e \in Deliveries :
        /\ hook[d].insertError = FetchFailed /\ hook[d].pc = "done"
        /\ hook[d].response = ServerError
        /\ hook[e].key = hook[d].key /\ Granted(e)


(***************************************************************************)
(* Claims about the bank builder                                           *)
(***************************************************************************)
BankLabels == {Dog, Cat}

\* the ensureDailyBank calls that have returned
EnsureReturned == {c \in Callers : caller[c].kind = "ensure" /\ caller[c].pc = "done"}

\* C9: for any label at most one build is executing at any time, whatever the
\* interleaving of ensureDailyBank, direct and prewarm calls; the lock is held for
\* exactly the labels that have a build executing; a build called while one for its
\* label was executing never ran; and an ensureDailyBank call returns today's bank
\* without calling the builder, or the latest older bank, or nothing.
C9_OneBuildPerLabel ==
    /\ \A l \in BankLabels : Cardinality(RunningFor(l)) <= 1
    /\ bankBuildLocks = {l \in BankLabels : RunningFor(l) # {}}
    /\ \A b \in BuildIds : build[b].busy => build[b].outcome = "locked"
    /\ \A c \in EnsureReturned :
        /\ caller[c].result.source \in {"today", "latest-fallback", "none"}
        /\ caller[c].result.source = "today" => build[c].pc = "none"
        /\ caller[c].result.source = "none" => caller[c].result.thoughts = 0

\* an ensureDailyBank call came back with the stale bank while the prewarm pass's
\* build of its label was executing, and its own build never ran
C9_Witness ==
    \E c \in EnsureReturned :
        /\ build[c].busy
        /\ build[c].outcome = "locked"
        /\ caller[c].result.source = "latest-fallback"
        /\ \E i \in 1..Len(PREWARM_LABELS) : PrewarmSlot(i) \in RunningFor(caller[c].label)

\* two direct calls for the same label have settled, the second made while a build
\* of the label was executing, the first finding no bank and getting enough lines
\* and a working store
TwoCallsSettled(c1, c2) ==
    /\ c1 # c2
    /\ caller[c1].kind = "direct" /\ caller[c2].kind = "direct"
    /\ build[c1].pc = "done" /\ build[c2].pc = "done"
    /\ build[c1].label \in BankLabels /\ build[c2].label = build[c1].label
    /\ ~build[c1].busy /\ build[c2].busy
    /\ build[c1].outcome \notin {"exists", "too_small", "error"}

PersistsBy(cs) == {u \in upserts : u.by \in cs}

\* C10: two concurrent direct calls of the builder for a label without a bank, with
\* generation supplying enough lines, persist exactly one bank for the label and
\* date, and once both have settled the lock for the label is not held.
C10_OnePersistLockReleased ==
    \A c1, c2 \in Callers :
        TwoCallsSettled(c1, c2) =>
            /\ Cardinality(PersistsBy({c1, c2})) = 1
            /\ \A u \in PersistsBy({c1, c2}) :
                    u.label = build[c1].label /\ thought_banks[<<u.label, u.day>>] > 0
            /\ RunningFor(build[c1].label) = {} => build[c1].label \notin bankBuildLocks

\* the first of two concurrent direct calls saved a bank and the second found the
\* lock taken
C10_Witness ==
    \E c1, c2 \in Callers :
        /\ TwoCallsSettled(c1, c2)
        /\ build[c1].outcome = "saved" /\ build[c2].outcome = "locked"
        /\ build[c1].label \notin bankBuildLocks

\* the ways a build that took the lock comes to its end
ExitPaths == {"exists", "saved", "too_small", "error"}

\* C11: the lock of a label is held only while a build of the label is executing:
\* a build that took it and ended, because today's bank was there, because it saved
\* one, because it gathered too few lines, or because generation or the store
\* threw, no longer holds it, and a later call for the label starts a new build.
C11_LockOnlyWhileBuilding ==
    /\ \A l \in bankBuildLocks : \E b \in BuildIds : Running(b) /\ build[b].label = l
    /\ \A b \in BuildIds :
        build[b].outcome \in ExitPaths =>
            /\ build[b].pc = "done"
            /\ build[b].label \in bankBuildLocks =>
                    \E later \in BuildIds \ {b} :
                        Running(later) /\ build[later].label = build[b].label

\* a build ended in the catch block, and a call made afterwards for the same label
\* took the lock and is gathering lines
C11_Witness ==
    \E b, later \in BuildIds :
        /\ build[b].outcome = "error"
        /\ build[later].label = build[b].label
        /\ build[later].pc = "batch"
        /\ ~build[later].busy
        /\ build[b].label \in bankBuildLocks

\* C12: provided every generation call and every store call returns, a build that
\* entered the batch loop eventually ends and releases its lock, whatever the
\* batches hold.
C12_BuildTerminates ==
    (lineBuild.pc = "batch") ~> (lineBuild.pc = "done" /\ ~lineBuild.locked)

\* the ensureDailyBank call c returns in this step
EnsureReturns(c) ==
    caller[c].kind = "ensure" /\ caller[c].pc # "done" /\ caller'[c].pc = "done"

\* the call of buildBankInBackground is made in this step for caller c
BuildTriggered(c) == build[c].pc = "none" /\ build'[c].pc # "none"

\* the dates before the given one on which the label has a bank
PriorDays(label, day) == {d \in Days : d < day /\ thought_banks[<<label, d>>] > 0}

\* the dates on which the label has a bank
BankDays(label) == {d \in Days : thought_banks[<<label, d>>] > 0}

Latest(dates) == CHOOSE d \in dates : \A e \in dates : e <= d

C16_EnsureNeverWaits ==
    [][\A c \in Callers :
        /\ (caller[c].kind = "ensure" /\ BuildTriggered(c)) =>
                /\ EnsureReturns(c)
                /\ caller'[c].result.source \in {"latest-fallback", "none"}
        /\ (caller[c].kind = "ensure" /\ caller[c].pc = "done") =>
                caller'[c] = caller[c]]_vars

\* one ensureDailyBank call has returned while the build it triggered is gathering
\* lines, and another has returned the stale bank and its build has failed since
C16_Witness ==
    \E c1, c2 \in EnsureReturned :
        /\ caller[c1].result.source \in {"latest-fallback", "none"}
        /\ build[c1].pc = "batch"
        /\ caller[c2].result.source \in {"latest-fallback", "none"}
        /\ build[c2].outcome = "error"

Distinct(s) == \A i, j \in 1..Len(s) : i # j => s[i] # s[j]

\* C17: once a bank for a label and date is persisted its lines never change: no
\* later build overwrites it, not even one whose re-check of today's bank fails
\* with a store error.
C17_PersistedBankNeverChanges ==
    lineBuild.prior # <<>> => lineBuild.stored = lineBuild.prior

\* 2 to 24 lowercase letters
MatchesLabelPattern(l) ==
    /\ Len(l) \in 2..24
    /\ \A i \in 1..Len(l) : l[i] \in LowerLetters

\* C18: buildBankInBackground does nothing when the label is not 2 to 24 lowercase
\* letters or the lock of the label is held: a call goes on to take the lock and
\* look the bank up only with such a label whose lock is free, and any other call
\* ends at once, leaving the lock set, the store and every other build as they were.
C18_NoOpWhenInvalidOrLocked ==
    [][\A b \in BuildIds :
        (build[b].pc = "none" /\ build'[b].pc # "none") =>
            IF MatchesLabelPattern(build'[b].label) /\ build'[b].label \notin bankBuildLocks
            THEN /\ build'[b].pc = "recheck"
                 /\ bankBuildLocks' = bankBuildLocks \cup {build'[b].label}
            ELSE /\ build'[b].pc = "done"
                 /\ build'[b].thoughts = 0
                 /\ UNCHANGED <<bankBuildLocks, thought_banks, upserts>>
                 /\ \A other \in BuildIds \ {b} : build'[other] = build[other]]_vars

\* a direct call for a label whose build is gathering lines has ended at the lock
\* check, and the running build still holds the lock
C18_Witness ==
    \E c, running \in Callers :
        /\ caller[c].kind = "direct"
        /\ build[c].pc = "done" /\ build[c].busy
        /\ build[running].pc = "batch"
        /\ build[running].label = build[c].label
        /\ build[c].label \in bankBuildLocks
        /\ upserts = {}

\* C13: every bank that is ever persisted holds pairwise distinct lines, at least 30
\* and at most 100 of them; a build whose deduplicated total is below 30 persists
\* nothing and leaves the stored row as it was.
C13_PersistedBankWellFormed ==
    /\ lineBuild.stored # <<>> =>
            /\ Distinct(lineBuild.stored)
            /\ Len(lineBuild.stored) >= 30
            /\ Len(lineBuild.stored) <= 100
    /\ Len(lineBuild.thoughts) < 30 => lineBuild.stored = lineBuild.prior

\* a build gathered more than the capacity from batches that held repeated lines and
\* saved a full bank where there was none
C13_Witness ==
    /\ lineBuild.outcome = "saved"
    /\ lineBuild.prior = <<>>
    /\ Len(lineBuild.stored) = 100
    /\ ~Distinct(lineBuild.batch)

\* C14: when every batch holds 3 usable lines, the build keeps requesting batches
\* until the bank has at least the minimum-acceptable count of lines: after a batch
\* of 3 lines that leaves the total below the minimum the build is still in its loop.
C14_ThreeLineBatchesAccumulate ==
    (Len(lineBuild.batch) = 3 /\ Len(lineBuild.thoughts) < BANK_LEARN_MIN_ACCEPT) =>
        lineBuild.pc = "batch"

(***************************************************************************)
(* Claims about the word-bounded filter                                    *)
(***************************************************************************)
\* the range of word counts a mode stands for, given the range asked for
ModeRange(mode, minWords, maxWords) ==
    CASE mode = "relax1" -> [lo |-> Max(1, minWords - 2), hi |-> Max(minWords, maxWords + 4)]
      [] mode = "relax2" -> [lo |-> Max(1, minWords - 3), hi |-> Max(minWords, maxWords + 8)]
      [] OTHER           -> [lo |-> minWords, hi |-> maxWords]

Within(line, range) == wordCount(line) >= range.lo /\ wordCount(line) <= range.hi

FilterDone == filter.result # None

\* C19: for every text and range, every line filterWithAutoRelax returns has a word
\* count inside the range of the mode it reports (strict: [min, max]; relax1:
\* [max(1, min-2), max(min, max+4)]; relax2: [max(1, min-3), max(min, max+8)]), and
\* no returned line is outside the relax2 range.
C19_LinesWithinReportedRange ==
    FilterDone =>
        \A i \in 1..Len(filter.result.lines) :
            /\ Within(filter.result.lines[i],
                      ModeRange(filter.result.mode, filter.minWords, filter.maxWords))
            /\ Within(filter.result.lines[i],
                      ModeRange("relax2", filter.minWords, filter.maxWords))

\* a relaxed result: the filter reports relax1 and returns a line, once bulleted, of
\* more words than the strict range allows
C19_Witness ==
    /\ FilterDone
    /\ filter.result.mode = "relax1"
    /\ \E i \in 1..Len(filter.result.lines) : wordCount(filter.result.lines[i]) > filter.maxWords
    /\ \E i \in 1..Len(filter.text) : Head(filter.text[i]) = "-"

\* the lines of the text a mode's range lets through
Yield(mode) ==
    LET range == ModeRange(mode, filter.minWords, filter.maxWords)
    IN  normalizeThoughtLines(filter.text, range.lo, range.hi)

FilterModes == <<"strict", "relax1", "relax2">>

\* the first mode, in the order strict, relax1, relax2, that yields 8 lines; 0 if none
FirstEnough ==
    IF \E k \in 1..3 : Len(Yield(FilterModes[k])) >= 8
    THEN CHOOSE k \in 1..3 :
            /\ Len(Yield(FilterModes[k])) >= 8
            /\ \A j \in 1..(k - 1) : Len(Yield(FilterModes[j])) < 8
    ELSE 0

\* C20: filterWithAutoRelax returns the lines of the first range, in the order
\* strict, relax1, relax2, that yields at least 8 lines, tagged with that mode; if
\* no range yields 8 it returns the largest non-empty result; if every range yields
\* nothing it returns no lines under a mode tag of its own. 20 lines in range with 5
\* over-long ones give exactly the 20 lines in mode "strict".
C20_FirstRangeWithEnough ==
    FilterDone =>
        /\ FirstEnough # 0 =>
                /\ filter.result.mode = FilterModes[FirstEnough]
                /\ filter.result.lines = Yield(FilterModes[FirstEnough])
        /\ FirstEnough = 0 /\ (\E k \in 1..3 : Yield(FilterModes[k]) # <<>>) =>
                /\ filter.result.lines # <<>>
                /\ \E k \in 1..3 : filter.result.lines = Yield(FilterModes[k])
                /\ \A k \in 1..3 : Len(filter.result.lines) >= Len(Yield(FilterModes[k]))
        /\ (\A k \in 1..3 : Yield(FilterModes[k]) = <<>>) =>
                /\ filter.result.lines = <<>>
                /\ \A k \in 1..3 : filter.result.mode # FilterModes[k]
        /\ filter.text = ScenarioA /\ filter.minWords = 5 /\ filter.maxWords = 15 =>
                /\ filter.result.mode = "strict"
                /\ filter.result.lines = Copies(Words(6), 10) \o Copies(Words(10), 10)

\* the strict range yields too few lines although some, and the first relaxed range
\* yields enough: the filter moves on to it
C20_Witness ==
    /\ FilterDone
    /\ Yield("strict") # <<>>
    /\ FirstEnough = 2
    /\ filter.result.mode = "relax1"

\* the positions of the text's lines that are not empty once stripped and trimmed and
\* whose word count lies in the range of the mode the filter reports
KeptPositions ==
    LET range == ModeRange(filter.result.mode, filter.minWords, filter.maxWords)
    IN  {i \in 1..Len(filter.text) :
            /\ stripLinePrefix(filter.text[i]) # <<>>
            /\ Within(stripLinePrefix(filter.text[i]), range)}

\* the k-th of a set of positions, counted from the start of the text
NthPosition(positions, k) ==
    CHOOSE i \in positions : Cardinality({j \in positions : j <= i}) = k

\* C21: the filter only drops lines and never truncates or reorders them: its output
\* is, in the order of the text, exactly the lines that are not empty after prefix
\* stripping and trimming and whose word count lies in the applied range, each as
\* stripped and trimmed.
C21_OrderPreservingSubsequence ==
    FilterDone =>
        /\ Len(filter.result.lines) = Cardinality(KeptPositions)
        /\ \A k \in 1..Len(filter.result.lines) :
                filter.result.lines[k] =
                    stripLinePrefix(filter.text[NthPosition(KeptPositions, k)])

\* the filter dropped lines from the middle of a text and kept the shorter lines
\* before them and the longer lines after them in the order of the text
C21_Witness ==
    /\ FilterDone
    /\ Len(filter.result.lines) < Len(filter.text)
    /\ \E k \in 2..Len(filter.result.lines) :
            Len(filter.result.lines[k]) > Len(filter.result.lines[1])
    /\ filter.result.lines[1] = filter.text[1]
    /\ filter.result.lines[Len(filter.result.lines)] = filter.text[Len(filter.text)]

(***************************************************************************)
(* Claims about the emoji normalizer and the subject cache                 *)
(***************************************************************************)
\* the line ends in an emoji: a pictographic one, with or without its variation
\* selector
EndsInEmoji(t) ==
    /\ t # <<>>
    /\ \/ t[Len(t)] \in {"S", "H"}
       \/ Len(t) >= 2 /\ t[Len(t)] = "V" /\ t[Len(t) - 1] = "H"

\* the line without the emoji it ends in and the white space before it
WithoutEndingEmoji(t) ==
    Trim(SubSeq(t, 1, Len(t) - (IF t[Len(t)] = "V" THEN 2 ELSE 1)))

\* C22: every line accepted into a batch ends in exactly one emoji after
\* ensureSingleEndingEmoji: a line that ends in no emoji gets the default emoji
\* appended, a line that ends in an emoji is left as it is, and a second application
\* changes nothing.
C22_ExactlyOneEndingEmoji ==
    norm.once # None =>
        /\ EndsInEmoji(norm.once)
        /\ ~EndsInEmoji(WithoutEndingEmoji(norm.once))
        /\ norm.once = IF EndsInEmoji(norm.line) THEN norm.line
                       ELSE norm.line \o <<" ", "S">>
        /\ norm.twice # None => norm.twice = norm.once

\* this step is a call of subjectCacheGet
GetStep == cacheEnv'.ops = cacheEnv.ops + 1 /\ cacheEnv'.call.kind = "get"

\* this step is a call of subjectCacheSet
SetStep == cacheEnv'.ops = cacheEnv.ops + 1 /\ cacheEnv'.call.kind = "set"

Holds(cache, key) == \E i \in 1..Len(cache) : cache[i].key = key

\* C23 as stated: get(f) after set(f, payload, ttl) returns the stored payload as
\* long as now <= expiresAt; once now > expiresAt it returns absent and removes the
\* entry; get of a fingerprint never set returns absent.
C23_GetReturnsWhatWasSet ==
    [][GetStep =>
        LET key == cacheEnv'.call.key
            set == cacheEnv.sets[key]
        IN  IF set.label = "" THEN cacheEnv'.out = None
            ELSE IF cacheEnv.now <= set.expiresAt
            THEN cacheEnv'.out # None /\ cacheEnv'.out.label = set.label
            ELSE cacheEnv'.out = None /\ ~Holds(subjectCache', key)]_vars

\* C23, amended: get(f) returns the payload of the last set(f) as long as
\* now <= expiresAt and the entry has not been evicted by a set at capacity; once
\* now > expiresAt it returns absent and removes that entry and no other; get of a
\* fingerprint never set, or evicted since, returns absent and leaves the cache as
\* it is.
C23_GetReturnsHeldEntry ==
    [][GetStep =>
        LET key == cacheEnv'.call.key
            set == cacheEnv.sets[key]
            i   == CachePosition(subjectCache, key)
        IN  IF i = 0
            THEN cacheEnv'.out = None /\ subjectCache' = subjectCache
            ELSE /\ set.label # ""
                 /\ subjectCache[i].label = set.label
                 /\ subjectCache[i].expiresAt = set.expiresAt
                 /\ IF cacheEnv.now <= set.expiresAt
                    THEN /\ cacheEnv'.out # None
                         /\ cacheEnv'.out.label = set.label
                         /\ subjectCache' = subjectCache
                    ELSE /\ cacheEnv'.out = None
                         /\ subjectCache' = SubSeq(subjectCache, 1, i - 1)
                                \o SubSeq(subjectCache, i + 1, Len(subjectCache))]_vars

\* a read at the very instant of expiry returned the label a set had stored over an
\* earlier one
C23_Witness ==
    /\ cacheEnv.call.kind = "get"
    /\ cacheEnv.out # None
    /\ cacheEnv.out.label = "cat"
    /\ cacheEnv.now = cacheEnv.out.expiresAt
    /\ Holds(subjectCache, cacheEnv.call.key)

\* the entries of the cache under other fingerprints than the given one, in order
OtherEntries(cache, key) ==
    LET Other(e) == e.key # key
    IN  SelectSeq(cache, Other)

\* C24: the cache never holds more than SUBJECT_CACHE_MAX entries. A set at capacity
\* evicts exactly one entry, the one inserted earliest, and keeps the entry it
\* inserts; a set below capacity evicts nothing. Every other entry stays as and
\* where it was.
C24_EvictsEarliestAtCapacity ==
    [][/\ Len(subjectCache') <= SUBJECT_CACHE_MAX
       /\ SetStep =>
            LET key   == cacheEnv'.call.key
                i     == CachePosition(subjectCache', key)
                stays == IF Len(subjectCache) >= SUBJECT_CACHE_MAX
                         THEN Tail(subjectCache) ELSE subjectCache
            IN  /\ i # 0
                /\ subjectCache'[i].label = cacheEnv'.sets[key].label
                /\ subjectCache'[i].expiresAt = cacheEnv.now + SUBJECT_CACHE_TTL_MS
                /\ OtherEntries(subjectCache', key) = OtherEntries(stays, key)
                /\ Len(subjectCache') = Cardinality({subjectCache'[j].key :
                                                        j \in 1..Len(subjectCache')})]_vars

\* a set of a new fingerprint into a full cache evicted the entry inserted first:
\* the cache is full again, starts with the second entry and ends with the new one
C24_Witness ==
    /\ cacheEnv.call = [kind |-> "set", key |-> SUBJECT_CACHE_MAX + 1]
    /\ cacheEnv.ops = 1
    /\ Len(subjectCache) = SUBJECT_CACHE_MAX
    /\ subjectCache[1].key = 2
    /\ subjectCache[SUBJECT_CACHE_MAX].key = SUBJECT_CACHE_MAX + 1

(***************************************************************************)
(* Claims about rejected requests, accounts and the prewarm pass           *)
(***************************************************************************)
\* the answers of POST /ask and POST /thought to a request that fails an input
\* check: a missing device id, question or image, or a label that is unusable
ValidationRejection(q) ==
    /\ q.kind \in {"ask", "thought"}
    /\ q.pc = "done"
    /\ \/ q.response.error \in {"MISSING_DEVICE_ID", "MISSING_QUESTION", "BAD_REQUEST"}
       \/ /\ q.response.status = 200
          /\ q.response.error = ""
          /\ "label" \in DOMAIN q.response.payload
          /\ q.response.payload.label = "unknown"

\* C25: a step that ends a request of POST /ask or POST /thought with an
\* input-validation rejection debits no ledger pool, writes no bank row and no
\* dedupe row, and takes no build lock
C25_RejectionHasNoSideEffects ==
    [][\A r \in Requests :
          (req[r].pc # "done" /\ ValidationRejection(req'[r]))
              => /\ device_usage' = device_usage
                 /\ thought_banks' = thought_banks
                 /\ revenuecat_events' = revenuecat_events
                 /\ bankBuildLocks' = bankBuildLocks]_vars

\* C26: a call of sbEnsureDeviceRow succeeds whenever the account exists by the
\* time it acts: a call that reaches its insert after another call created the
\* row goes on to the operation that asked for the account
C26_EveryEnsureCallSucceeds ==
    [][\A r \in Requests :
          (req[r].pc = "ensure_insert" /\ req'[r].pc # "ensure_insert"
              /\ device_usage[req[r].deviceId] # NoRow)
              => req'[r].pc = req[r].next]_vars

\* the builds a prewarm pass has fired and that have not ended
PassBuildsRunning == {i \in 1..Len(PREWARM_LABELS) : Running(PrewarmSlot(i))}

\* C27: when the lookup of a prewarm pass returns for a hot label that has no
\* bank for the day, the build of that label is fired in the same step and
\* starts running whatever the builds of the other labels are doing, and the
\* pass always reaches its end although a build it fired may fail or never end
C27_PassFiresAndNeverWaits ==
    /\ [][(prewarm.pc = "lookup" /\ prewarm' # prewarm
             /\ thought_banks[<<PREWARM_LABELS[prewarm.i], prewarm.day>>] = 0)
            => /\ build'[PrewarmSlot(prewarm.i)].pc = "recheck"
               /\ build'[PrewarmSlot(prewarm.i)].label = PREWARM_LABELS[prewarm.i]
               /\ \A j \in 1..Len(PREWARM_LABELS) :
                    j # prewarm.i => build'[PrewarmSlot(j)] = build[PrewarmSlot(j)]]_vars
    /\ (prewarm.pc = "lookup") ~> (prewarm.pc = "done")

\* the pass is over while the builds of both labels are still running
C27_Witness ==
    /\ prewarm.pc = "done"
    /\ PassBuildsRunning = 1..Len(PREWARM_LABELS)
    /\ build[PrewarmSlot(1)].label # build[PrewarmSlot(2)].label

\* the request takes the step that ends the given call
Returns(r, pc) == req[r].pc = pc /\ req'[r].pc # pc

\* C28: the counters of an account change only in a step of the spend, consume
\* or grant procedures or of the insert that seeds the account, and an account
\* that exists is never deleted
C28_OnlySpendAndGrantWrite ==
    [][\A d \in DeviceKeys :
          /\ device_usage[d] # NoRow => device_usage'[d] # NoRow
          /\ device_usage'[d] # device_usage[d]
                => \E r \in Requests :
                      /\ req[r].deviceId = d
                      /\ \/ Returns(r, "ensure_insert")
                         \/ Returns(r, "spend")
                         \/ Returns(r, "consume_rpc")
                         \/ Returns(r, "grant_rpc")]_vars

\* call r of the helpers is a spend that returns in this step
SpendReturns(r) == req[r].pc = "idle" /\ req'[r].kind = "spend_call" /\ req'[r].result # None

\* call r of the helpers was a grant of the amount that returned a pool with
\* exactly that amount remaining: the pool it topped up was exhausted
GrantedOnExhausted(r, amount) ==
    /\ req[r].kind = "grant_call"
    /\ req[r].result # None
    /\ req[r].body.amount = amount
    /\ req[r].result.remainingPro = amount

\* C29: a spend on a pool with used = granted returns ok = false with remaining 0
\* and leaves the pool as it was; a spend of n made right after a grant of n to
\* an exhausted pool returns ok = true with remaining 0
C29_ExhaustedThenGranted ==
    [][\A r \in 1..MaxPoolCalls :
          SpendReturns(r) =>
              LET row == device_usage[Dev1]
                  out == req'[r].result
              IN  /\ (row # NoRow /\ row.pro_used = row.pro_tokens)
                        => /\ ~out.ok
                           /\ out.remainingPro = 0
                           /\ device_usage' = device_usage
                  /\ (r > 1 /\ GrantedOnExhausted(r - 1, req'[r].body.cost))
                        => /\ out.ok
                           /\ out.remainingPro = 0
                           /\ out.proUsed = out.proTokens]_vars

\* scenario C: granted 5 and used 5, spend 1 is refused with nothing remaining,
\* then grant 1, then spend 1 succeeds with nothing remaining
C29_Witness ==
    /\ start[Dev1] = Row(DEFAULT_PRO_BALANCE, DEFAULT_PRO_BALANCE, FREE_CHAT_TOKENS,
                         FREE_CHAT_TOKENS)
    /\ req[1].kind = "spend_call" /\ req[1].body.cost = 1 /\ req[1].result # None
    /\ ~req[1].result.ok /\ req[1].result.remainingPro = 0
    /\ req[2].kind = "grant_call" /\ req[2].body.amount = 1 /\ req[2].result # None
    /\ req[3].kind = "spend_call" /\ req[3].body.cost = 1 /\ req[3].result # None
    /\ req[3].result.ok /\ req[3].result.remainingPro = 0

\* pro_used of a device's row, 0 while the device has no row
ProUsed(row) == IF row = NoRow THEN 0 ELSE row.pro_used

\* C30: in POST /thought, generateProThought is called only in the step in which
\* sbSpendCredits returned ok = true for a pro request, having added exactly 1
\* to the device's pro_used; a request gets to that call in no other way, so
\* none with a refused spend, an unusable label or the free tier does; and no
\* step of a free request changes the ledger
C30_GenerationOnlyAfterSpend ==
    [][\A r \in Requests :
          /\ (req'[r].kind = "thought" /\ req'[r].pc = "generate" /\ req[r].pc # "generate")
                => /\ req[r].pc = "spend"
                   /\ req[r].body.tier = "pro"
                   /\ req'[r].result.ok
                   /\ ProUsed(device_usage'[req[r].deviceId])
                          = ProUsed(device_usage[req[r].deviceId]) + 1
                   /\ \A d \in DeviceKeys \ {req[r].deviceId} :
                          device_usage'[d] = device_usage[d]
          /\ (req[r].kind = "thought" /\ req[r].pc = "generate")
                => req[r].body.tier = "pro" /\ req[r].result.ok
          /\ (req'[r].kind = "thought" /\ req'[r] # req[r] /\ req'[r].body.tier = "free")
                => device_usage' = device_usage]_vars

\* a pro request is waiting for generateProThought after its spend of one credit,
\* and a free request has been served from the bank
C30_Witness ==
    \E r, f \in Requests :
        /\ req[r].kind = "thought" /\ req[r].pc = "generate"
        /\ req[r].result.ok
        /\ ProUsed(device_usage[req[r].deviceId]) = ProUsed(start[req[r].deviceId]) + 1
        /\ req[f].kind = "thought" /\ req[f].pc = "done" /\ req[f].body.tier = "free"
        /\ req[f].response.status = 200

(***************************************************************************)
(* Claims about redelivered events, the day of a build and stored lines    *)
(***************************************************************************)
\* C31: once a delivery of a credit-pack event that names an event id has been
\* answered with success and every delivery of that event is over, the event's
\* credits have been granted by exactly one of its deliveries
C31_RedeliveredEventIsGranted ==
    \A d \in Deliveries :
        (/\ hook[d].key \in NamedKeys
         /\ hook[d].pc = "done"
         /\ hook[d].response.status = 200
         /\ \A e \in DeliveriesOf(hook[d].key) : hook[e].pc = "done")
            => Cardinality({e \in DeliveriesOf(hook[d].key) : Granted(e)}) = 1

\* C32: the day key a build calls sbUpsertBank with is the day key its re-check
\* of today's bank was made with, also when the UTC day changed in between
C32_UpsertForCheckedDay ==
    \A b \in BuildIds : build[b].pc = "upsert" => build[b].day = build[b].checked

\* the widest range filterWithAutoRelax goes to for the free-tier word range
WidestRange == getRelaxedRanges(FREE_THOUGHT_MIN_WORDS, FREE_THOUGHT_MAX_WORDS).r2

\* the lines of the stored bank, once the build has saved it
SavedLines ==
    IF lineBuild.outcome = "saved"
    THEN {lineBuild.stored[i] : i \in 1..Len(lineBuild.stored)}
    ELSE {}

\* the line ends in the emoji ensureSingleEndingEmoji appends, as a word of its own
EndsInAppended(line) ==
    /\ Len(line) > 2
    /\ SubSeq(line, Len(line) - 1, Len(line)) = <<" ", "S">>

\* C33 (as claimed): every line of a saved bank, as stored, has a word count
\* within the widest relaxed range
C33_StoredWithinWidest ==
    \A line \in SavedLines :
        /\ wordCount(line) >= WidestRange.minWords
        /\ wordCount(line) <= WidestRange.maxWords

\* C33 (amended): every line of a saved bank, as stored, has a word count between
\* the lower bound of the widest relaxed range and one above its upper bound, and
\* a line above the upper bound ends in the appended emoji and is within the
\* range without it
C33_StoredWithinWidestPlusEmoji ==
    \A line \in SavedLines :
        /\ wordCount(line) >= WidestRange.minWords
        /\ wordCount(line) <= WidestRange.maxWords + 1
        /\ wordCount(line) > WidestRange.maxWords
              => /\ EndsInAppended(line)
                 /\ wordCount(SubSeq(line, 1, Len(line) - 2)) = WidestRange.maxWords

\* a saved bank holds a line that was as long as the widest range allows and got
\* the emoji appended, and one of that length that came with its own emoji
C33_Witness ==
    /\ \E line \in SavedLines :
          wordCount(line) = WidestRange.maxWords + 1 /\ EndsInAppended(line)
    /\ \E line \in SavedLines :
          wordCount(line) = WidestRange.maxWords /\ line[Len(line)] = "H"

====
